---- MODULE Spec2Model ----
(***************************************************************************)
(* A model of the subreddit scanner: the sliding-window rate limiter, the  *)
(* Reddit API client's request pipeline, and the scanner's per-item        *)
(* processing and scan loops over the subreddit store.                     *)
(*                                                                         *)
(* Time is read from a simulated clock that counts whole seconds.          *)
(***************************************************************************)
EXTENDS Integers, Sequences, FiniteSets, TLC

VARIABLES
    \* ---- SlidingWindowRateLimiter (rate_limiter.py) ----
    now,               \* the clock, time.time(), in seconds
    window_60s,        \* deque of timestamps, 60-second window
    window_10s,        \* deque of timestamps, 10-second window
    window_1s,         \* deque of timestamps, 1-second window
    lock,              \* holder of self.lock, or NoCaller
    rlpc,              \* position of each caller inside acquire()
    start_time,        \* acquire()'s local start_time, per caller
    timeout,           \* acquire()'s timeout argument, per caller
    wake_at,           \* when a caller's asyncio.sleep(wait_time) is due
    rl_result,         \* what each caller's last acquire() returned
    total_requests,    \* self.total_requests
    requests_blocked,  \* self.requests_blocked
    granted,           \* history: the timestamp recorded by every grant
    \* ---- RedditAPIClient (reddit_client.py) ----
    cpc,               \* position inside initialize() / get_subreddit_info()
    creq,              \* which _make_request runs: "diversity" or "main"
    token,             \* self.token / self.token_expires: none, valid, expired
    attempt,           \* the loop variable of "for attempt in range(max_retries)"
    max_retries,       \* _make_request's max_retries argument
    backoff_attempt,   \* backoff.current_attempt of the call's ExponentialBackoff
    rate_limit_hits,   \* self.rate_limit_hits
    result,            \* what get_subreddit_info returned (or that it raised)
    resps,             \* history: the responses the current _make_request got
    retry_pending,     \* seconds the last 429 of the call asked to wait, or NoPending
    slept,             \* seconds slept since that 429 response
    permit,            \* an acquire() was granted and no request sent since
    token_requests,    \* token requests _authenticate sent during the call
    \* ---- Database (database.py) and SubredditScanner (scanner.py) ----
    store,                 \* the subreddits table: name -> row, or Absent
    consecutive_403s,      \* self.consecutive_403s
    total_429s,            \* self.total_429s
    shutdown_requested,    \* self.shutdown_requested
    subreddits_processed,  \* self.subreddits_processed
    subreddits_failed,     \* self.subreddits_failed
    spc,                   \* position of the scanner
    current,               \* the subreddit being processed
    fetched,               \* "metadata, status": what get_subreddit_info gave
    retry_count,           \* process_subreddit's local retry_count
    item_raised,           \* the except clause of process_subreddit ran
    calls,                 \* process_subreddit calls made so far (history)
    \* ---- One scanner process: run() and run_csv_scan() ----
    mode,                  \* which scan this process runs
    running,               \* self.running
    worklist,              \* subreddits_to_process / csv_rows
    idx,                   \* rows of the work list the loop is done with
    rows_to_keep,          \* rows_to_keep of run_csv_scan
    processed,             \* processed of run_csv_scan
    limit,                 \* self.limit (0: none given)
    runs,                  \* scanner processes started so far (history)
    csv_file,              \* the rows of the CSV file on disk
    exit_code,             \* what main() returned, once it has
    loop_raised,           \* the scan ended on an exception caught around its loop
    interrupted,           \* a signal reached the scan (history)
    signal_in_flight,      \* the signal came while an item was in flight (history)
    db_calls,              \* the direct calls of Database methods (history)
    fn_call                \* the last call of a function taken alone (history)

rlVars == <<now, window_60s, window_10s, window_1s, lock, rlpc, start_time,
            timeout, wake_at, rl_result, total_requests, requests_blocked,
            granted>>

clVars == <<cpc, creq, token, attempt, max_retries, backoff_attempt,
            rate_limit_hits, result, resps, retry_pending, slept, permit,
            token_requests>>

dbVars == <<store>>

scVars == <<consecutive_403s, total_429s, shutdown_requested,
            subreddits_processed, subreddits_failed, spc, current, fetched,
            retry_count, item_raised, calls>>

runVars == <<mode, running, worklist, idx, rows_to_keep, processed, limit,
             runs>>

fsVars == <<csv_file>>

histVars == <<signal_in_flight, db_calls, fn_call>>

procVars == <<exit_code, loop_raised, interrupted>>

vars == <<rlVars, clVars, dbVars, scVars, runVars, fsVars, histVars,
          procVars>>

\* What the steps of one component leave alone.
notRL == <<clVars, dbVars, scVars, runVars, fsVars, histVars, procVars>>
notCL == <<rlVars, dbVars, scVars, runVars, fsVars, histVars, procVars>>
\* The scanner's steps see the client through get_subreddit_info only: of the
\* client's state they change rate_limit_hits.
notSC == <<rlVars, cpc, creq, token, attempt, max_retries, backoff_attempt,
           result, resps, retry_pending, slept, permit, token_requests>>
\* The callers of process_subreddit taken alone leave the scan loops alone.
notItem == <<notSC, runVars, fsVars, histVars, procVars>>

(***************************************************************************)
(* Bounds of the model.                                                    *)
(***************************************************************************)
NumCallers == 2       \* concurrent callers of acquire()
MaxTime == 2          \* the clock is ticked second by second up to here
MaxGrants == 3        \* grants per behaviour
MaxBlocked == 2       \* no new acquire() once this many checks were blocked
Cap1s == 1            \* requests_per_1s of the limiter under test
Cap10s == 3           \* requests_per_10s of the limiter under test
Cap60s == 3           \* requests_per_minute of the limiter under test
MaxHits == 4          \* no further 429 is answered once rate_limit_hits is here
MinDelay == 0         \* min_request_delay of the client under test
MaxDelay == 1         \* max_request_delay of the client under test
MaxScanHits == 2       \* 429s counted by the client of a scan
MaxItems == 4         \* process_subreddit calls per behaviour
MaxRows == 2          \* rows of the CSV file given to a scan
MaxRuns == 2          \* scanner processes run one after the other
Max403 == 1           \* config.max_consecutive_403 of the scans
Max429 == 2           \* config.max_total_429 of the scans
MaxDbCalls == 2       \* direct calls of Database methods per behaviour
MaxBackoffAttempt == 7 \* wait() calls on one ExponentialBackoff without reset()
MaxList == 4          \* names of a list given to _interleave_with_random

(***************************************************************************)
(* Constants of the program.                                               *)
(***************************************************************************)
Horizon60 == 60
Horizon10 == 10
Horizon1 == 1
DefaultRetryAfter == 60              \* response.headers.get('Retry-After', 60)
MainMaxRetries == 3                  \* _make_request(..., max_retries: int = 3)
DiversityMaxRetries == 1             \* _make_request('GET', endpoint, max_retries=1)
RetryLimit == 3                      \* "if retry_count >= 3"
MinSubscribers == 100                \* "if subscribers < 100"
BackoffBase == 100                   \* base_delay: float = 1.0
BackoffCap == 6000                   \* max_delay: float = 60.0
BackoffMultiplier == 2               \* multiplier: float = 2.0
JitterLow == 75                      \* random.uniform(0.75, 1.25)
JitterHigh == 125
NoExit == -1                         \* main() has not returned
ExitClean == 0                       \* "return 0" once the mode has run
ExitFatal == 1                       \* "return 1" on an exception
ExitInterrupt == 130                 \* "return 130" on KeyboardInterrupt

Callers == 1..NumCallers
NoCaller == 0
NoTimeout == -1                      \* timeout=None
TimeoutVals == {NoTimeout, 0, 2}

Max(S) == CHOOSE x \in S : \A y \in S : y <= x

(***************************************************************************)
(* SlidingWindowRateLimiter                                                *)
(***************************************************************************)

\* _cleanup_window: pop from the left while window[0] < now - max_age.
RECURSIVE _cleanup_window(_, _, _)
_cleanup_window(window, max_age, t) ==
    IF window # <<>> /\ Head(window) < t - max_age
    THEN _cleanup_window(Tail(window), max_age, t)
    ELSE window

\* The wait a saturated window asks for: (oldest + horizon) - now.
WindowWait(window, cap, horizon, t) ==
    IF Len(window) >= cap THEN {(Head(window) + horizon) - t} ELSE {}

\* _get_wait_time, on windows already cleaned up: the maximum of the waits of
\* the saturated windows, 0 when none is saturated.
_get_wait_time(w60, w10, w1, t) ==
    LET wait_times == WindowWait(w60, Cap60s, Horizon60, t)
                      \cup WindowWait(w10, Cap10s, Horizon10, t)
                      \cup WindowWait(w1, Cap1s, Horizon1, t)
    IN IF wait_times # {} THEN Max(wait_times) ELSE 0

\* "if wait_time <= 0": the slot is available.
SlotAvailable(wait_time) == wait_time <= 0

\* "async with self.lock": the lock is taken only when nobody holds it.
LockAvailable_NotExclusive == TRUE
LockAvailable == lock = NoCaller

\* "if elapsed + wait_time > timeout" under "if timeout is not None".
TimedOut_OrEqual(c, wait_time) ==
    /\ timeout[c] # NoTimeout
    /\ (now - start_time[c]) + wait_time >= timeout[c]
TimedOut(c, wait_time) ==
    /\ timeout[c] # NoTimeout
    /\ (now - start_time[c]) + wait_time > timeout[c]

\* No caller is between two awaits of acquire(): the event loop runs one
\* coroutine at a time, so nothing else runs between the check and the record.
NoneRunning == \A c \in Callers : rlpc[c] # "record"

RLInit ==
    /\ now = 0
    /\ window_60s = <<>>
    /\ window_10s = <<>>
    /\ window_1s = <<>>
    /\ lock = NoCaller
    /\ rlpc = [c \in Callers |-> "idle"]
    /\ start_time = [c \in Callers |-> 0]
    /\ timeout = [c \in Callers |-> NoTimeout]
    /\ wake_at = [c \in Callers |-> 0]
    /\ rl_result = [c \in Callers |-> "none"]
    /\ total_requests = 0
    /\ requests_blocked = 0
    /\ granted = <<>>

\* acquire() is called: start_time = time.time(), then the lock is awaited.
AcquireCall(c) ==
    /\ UNCHANGED notRL
    /\ rlpc[c] = "idle"
    /\ NoneRunning
    /\ Len(granted) < MaxGrants
    /\ requests_blocked < MaxBlocked
    /\ \E t \in TimeoutVals : timeout' = [timeout EXCEPT ![c] = t]
    /\ start_time' = [start_time EXCEPT ![c] = now]
    /\ rlpc' = [rlpc EXCEPT ![c] = "wantlock"]
    /\ rl_result' = [rl_result EXCEPT ![c] = "none"]
    /\ UNCHANGED <<now, window_60s, window_10s, window_1s, lock, wake_at,
                   total_requests, requests_blocked, granted>>

\* "async with self.lock:" is entered.
AcquireLock(c) ==
    /\ UNCHANGED notRL
    /\ rlpc[c] = "wantlock"
    /\ NoneRunning
    /\ LockAvailable
    /\ lock' = c
    /\ rlpc' = [rlpc EXCEPT ![c] = "check"]
    /\ UNCHANGED <<now, window_60s, window_10s, window_1s, start_time, timeout,
                   wake_at, rl_result, total_requests, requests_blocked,
                   granted>>

\* One pass of the loop body up to the record, the return False or the sleep:
\* wait_time = self._get_wait_time(), which cleans the three windows up.
CheckWindows(c) ==
    /\ UNCHANGED notRL
    /\ rlpc[c] = "check"
    /\ NoneRunning
    /\ LET w60 == _cleanup_window(window_60s, Horizon60, now)
           w10 == _cleanup_window(window_10s, Horizon10, now)
           w1 == _cleanup_window(window_1s, Horizon1, now)
           wait_time == _get_wait_time(w60, w10, w1, now)
       IN /\ window_60s' = w60
          /\ window_10s' = w10
          /\ window_1s' = w1
          /\ IF SlotAvailable(wait_time)
             THEN /\ rlpc' = [rlpc EXCEPT ![c] = "record"]
                  /\ UNCHANGED <<lock, wake_at, rl_result, requests_blocked,
                                 start_time, timeout>>
             ELSE IF TimedOut(c, wait_time)
             THEN /\ requests_blocked' = requests_blocked + 1
                  /\ rl_result' = [rl_result EXCEPT ![c] = "false"]
                  /\ rlpc' = [rlpc EXCEPT ![c] = "idle"]
                  /\ lock' = NoCaller
                  /\ start_time' = [start_time EXCEPT ![c] = 0]
                  /\ timeout' = [timeout EXCEPT ![c] = NoTimeout]
                  /\ UNCHANGED wake_at
             ELSE /\ requests_blocked' = requests_blocked + 1
                  /\ wake_at' = [wake_at EXCEPT ![c] = now + wait_time]
                  /\ rlpc' = [rlpc EXCEPT ![c] = "sleep"]
                  /\ UNCHANGED <<lock, rl_result, start_time, timeout>>
    /\ UNCHANGED <<now, total_requests, granted>>

\* "now = time.time()" and the three appends; return True leaves the lock.
RecordGrant(c) ==
    /\ UNCHANGED notRL
    /\ rlpc[c] = "record"
    /\ window_60s' = Append(window_60s, now)
    /\ window_10s' = Append(window_10s, now)
    /\ window_1s' = Append(window_1s, now)
    /\ total_requests' = total_requests + 1
    /\ granted' = Append(granted, now)
    /\ rl_result' = [rl_result EXCEPT ![c] = "true"]
    /\ rlpc' = [rlpc EXCEPT ![c] = "idle"]
    /\ lock' = NoCaller
    /\ start_time' = [start_time EXCEPT ![c] = 0]
    /\ timeout' = [timeout EXCEPT ![c] = NoTimeout]
    /\ UNCHANGED <<now, wake_at, requests_blocked>>

\* asyncio.sleep(wait_time) returns once the delay has passed; the loop goes
\* round again, the lock still held.
WakeUp(c) ==
    /\ UNCHANGED notRL
    /\ rlpc[c] = "sleep"
    /\ NoneRunning
    /\ now >= wake_at[c]
    /\ rlpc' = [rlpc EXCEPT ![c] = "check"]
    /\ wake_at' = [wake_at EXCEPT ![c] = 0]
    /\ UNCHANGED <<now, window_60s, window_10s, window_1s, lock, start_time,
                   timeout, rl_result, total_requests, requests_blocked,
                   granted>>

\* The clock advances by a second (also between the check and the record).
Tick ==
    /\ UNCHANGED notRL
    /\ now < MaxTime
    /\ now' = now + 1
    /\ UNCHANGED <<window_60s, window_10s, window_1s, lock, rlpc, start_time,
                   timeout, wake_at, rl_result, total_requests,
                   requests_blocked, granted>>

\* Time passes until the sleep of a waiting caller is due.
SleepThrough ==
    /\ UNCHANGED notRL
    /\ \E c \in Callers :
          /\ rlpc[c] = "sleep"
          /\ wake_at[c] > now
          /\ now' = wake_at[c]
    /\ UNCHANGED <<window_60s, window_10s, window_1s, lock, rlpc, start_time,
                   timeout, wake_at, rl_result, total_requests,
                   requests_blocked, granted>>

(***************************************************************************)
(* RedditAPIClient                                                         *)
(***************************************************************************)

NoPending == -1

\* Response bodies: a subreddit payload {'data': {...}}, a JSON object with no
\* 'data' key, a JSON scalar, and a body that is not JSON.
NoBody == [shape |-> "none", quarantine |-> FALSE, subreddit_type |-> "none"]
Payloads ==
    [shape : {"payload"}, quarantine : BOOLEAN,
     subreddit_type : {"public", "private", "user"}]
Bodies ==
    Payloads \cup
    [shape : {"nodata", "scalar", "notjson"}, quarantine : {FALSE},
     subreddit_type : {"none"}]

\* Retry-After header values: missing, a number of seconds, an HTTP date.
RetryAfterHeaders == {"absent", "0", "2", "date"}

\* What one dispatched request can come back with.  code 0: the transport
\* failed and there is no response.
Response(code, header, body) ==
    [code |-> code, retry_after |-> header, body |-> body]
Responses ==
    {Response(c, "absent", NoBody) : c \in {0, 301, 302, 400, 401, 403, 404, 500}}
    \cup {Response(429, h, NoBody) : h \in RetryAfterHeaders}
    \cup {Response(200, "absent", b) : b \in Bodies}

\* int(response.headers.get('Retry-After', 60)): int() of the header text.
IntOfText == [t \in {"0", "2"} |-> IF t = "0" THEN 0 ELSE 2]
RetryAfterParses(header) == header = "absent" \/ header \in DOMAIN IntOfText
RetryAfterSeconds(header) ==
    IF header = "absent" THEN DefaultRetryAfter ELSE IntOfText[header]

\* The value _make_request returns: None, {'_http_status': s}, or the JSON.
DataNone == [kind |-> "none", http_status |-> 0, body |-> NoBody]
DataMarker(s) == [kind |-> "marker", http_status |-> s, body |-> NoBody]
DataJson(b) == [kind |-> "json", http_status |-> 0, body |-> b]

\* The pair get_subreddit_info returns.
NoMetadata == NoBody
Pair(metadata, status) == [metadata |-> metadata, status |-> status]
NoResult == Pair(NoMetadata, "none")
ErrorResult == Pair(NoMetadata, "error")
Raised == Pair(NoMetadata, "raised")     \* no pair: an exception left the call

\* get_subreddit_info's classification of the data _make_request returned.
ClassifyMarker(s) ==
    IF s = 404 THEN Pair(NoMetadata, "notfound")
    ELSE IF s = 403 THEN Pair(NoMetadata, "deleted")
    ELSE ErrorResult

ClassifyPayload_TypeFirst(subreddit_data) ==
    IF subreddit_data.subreddit_type = "private"
    THEN Pair(subreddit_data, "private")
    ELSE IF subreddit_data.quarantine THEN Pair(subreddit_data, "quarantined")
    ELSE Pair(subreddit_data, "active")
ClassifyPayload(subreddit_data) ==
    IF subreddit_data.quarantine THEN Pair(subreddit_data, "quarantined")
    ELSE IF subreddit_data.subreddit_type = "private"
    THEN Pair(subreddit_data, "private")
    ELSE Pair(subreddit_data, "active")

\* "data and 'data' in data" on a JSON scalar raises TypeError.
ClassifyRaises(d) == d.kind = "json" /\ d.body.shape = "scalar"

Classify(d) ==
    IF d.kind = "none" THEN ErrorResult
    ELSE IF d.kind = "marker" THEN ClassifyMarker(d.http_status)
    ELSE IF d.body.shape = "payload" THEN ClassifyPayload(d.body)
    ELSE ErrorResult

\* The try blocks.  _make_request's try covers the loop body but not
\* _ensure_token_valid; get_subreddit_info's try covers the main _make_request
\* and the classification; _make_diversity_request swallows every Exception.
RequestTryCovers(pos) == pos \in {"acquire", "delay", "send", "reauth"}
InfoTryCovers_CallOutside(part) == part = "classify"
InfoTryCovers(part) == part \in {"request", "classify"}
DiversityTryCovers == TRUE

\* "self.rate_limit_hits += 1"
HitsAfter429(hits) == hits + 1

\* The seconds asyncio.sleep(retry_after) takes: none for a delay <= 0.
SleepSeconds_None(retry_after) == 0
SleepSeconds(retry_after) == IF retry_after > 0 THEN retry_after ELSE 0

\* "elif status >= 500": the server errors that are retried with backoff.
IsServerError_Never(code) == FALSE
IsServerError(code) == code >= 500

\* The statuses returned as {'_http_status': status} without another attempt.
IsTerminalMarker_Only404(code) == code = 404
IsTerminalMarker(code) == code = 404 \/ code = 403

\* "for attempt in range(max_retries)": after iteration a there is another.
LoopGoesOn_OneMore(a, m) == a + 1 <= m
LoopGoesOn(a, m) == a + 1 < m

\* "if attempt < max_retries - 1" in the generic handler.
MayRetryAfterException(a, m) == a < m - 1

CLInit ==
    /\ cpc = "new"
    /\ creq = "none"
    /\ token = "none"
    /\ attempt = 0
    /\ max_retries = 0
    /\ backoff_attempt = 0
    /\ rate_limit_hits = 0
    /\ result = NoResult
    /\ resps = <<>>
    /\ retry_pending = NoPending
    /\ slept = 0
    /\ permit = FALSE
    /\ token_requests = 0

\* The token requests of the _make_request call under way, after a step
\* that sent this many: a call that begins has sent none yet.
CountTokenRequests(sent) ==
    token_requests' = IF creq' # creq /\ creq' # "none"
                      THEN 0
                      ELSE token_requests + sent

\* A _make_request call begins: _ensure_token_valid comes first.
BeginRequest(which, retries) ==
    /\ creq' = which
    /\ max_retries' = retries
    /\ attempt' = 0
    /\ backoff_attempt' = 0
    /\ resps' = <<>>
    /\ retry_pending' = NoPending
    /\ slept' = 0
    /\ cpc' = "ensure"

\* get_subreddit_info ends with the pair r (or with an exception: Raised);
\* the locals of the call are gone.
EndInfo(r, log) ==
    /\ result' = r
    /\ cpc' = "returned"
    /\ creq' = "none"
    /\ attempt' = 0
    /\ max_retries' = 0
    /\ backoff_attempt' = 0
    /\ retry_pending' = NoPending
    /\ slept' = 0
    /\ resps' = log

\* _make_request is over: it returned d, or an exception left it.  The
\* diversity request's outcome is dropped and the main request begins.
FinishRequest(d, raised, log) ==
    IF creq = "diversity"
    THEN IF raised /\ ~DiversityTryCovers
         THEN EndInfo(Raised, log)
         ELSE BeginRequest("main", MainMaxRetries) /\ UNCHANGED result
    ELSE IF raised
    THEN EndInfo(IF InfoTryCovers("request") THEN ErrorResult ELSE Raised, log)
    ELSE IF ClassifyRaises(d)
    THEN EndInfo(IF InfoTryCovers("classify") THEN ErrorResult ELSE Raised, log)
    ELSE EndInfo(Classify(d), log)

\* "continue": the next iteration of the for loop, or its end
\* ("Max retries exceeded", return None).  b is backoff.current_attempt and
\* sl the seconds slept, as the step that continues leaves them.
NextAttempt(b, sl) ==
    IF LoopGoesOn(attempt, max_retries)
    THEN /\ attempt' = attempt + 1
         /\ cpc' = "acquire"
         /\ backoff_attempt' = b
         /\ slept' = sl
         /\ UNCHANGED <<creq, max_retries, result, resps, retry_pending>>
    ELSE FinishRequest(DataNone, FALSE, resps)

\* An exception inside the loop body reaches "except Exception".
GenericException(log) ==
    IF MayRetryAfterException(attempt, max_retries)
    THEN /\ cpc' = "backoff"
         /\ resps' = log
         /\ retry_pending' = NoPending
         /\ slept' = 0
         /\ UNCHANGED <<creq, attempt, max_retries, backoff_attempt, result>>
    ELSE FinishRequest(DataNone, FALSE, log)

\* initialize(): the HTTP client is created and _authenticate() is awaited.
Initialize ==
    /\ UNCHANGED <<notCL, permit>>
    /\ UNCHANGED token_requests
    /\ cpc = "new"
    /\ \E ok \in BOOLEAN :
          IF ok THEN token' = "valid" /\ cpc' = "idle"
          ELSE token' = "none" /\ cpc' = "failed"
    /\ UNCHANGED <<creq, attempt, max_retries, backoff_attempt,
                   rate_limit_hits, result, resps, retry_pending, slept>>

\* token_expires is reached.
TokenExpires ==
    /\ UNCHANGED <<notCL, permit>>
    /\ UNCHANGED token_requests
    /\ token = "valid"
    /\ cpc \in {"idle", "ensure"}
    /\ token' = "expired"
    /\ UNCHANGED <<cpc, creq, attempt, max_retries, backoff_attempt,
                   rate_limit_hits, result, resps, retry_pending, slept>>

\* get_subreddit_info is called: _make_diversity_request first, which makes
\* its request with probability 0.2.
CallInfo ==
    /\ UNCHANGED <<notCL, permit>>
    /\ cpc = "idle"
    /\ \E diversity \in BOOLEAN :
          IF diversity
          THEN BeginRequest("diversity", DiversityMaxRetries)
          ELSE BeginRequest("main", MainMaxRetries)
    /\ result' = NoResult
    /\ UNCHANGED <<token, rate_limit_hits>>
    /\ CountTokenRequests(0)

\* _ensure_token_valid, then the first iteration of the loop.
EnsureTokenValid ==
    /\ UNCHANGED <<notCL, permit>>
    /\ cpc = "ensure"
    /\ IF token = "valid"
       THEN /\ cpc' = "acquire"
            /\ UNCHANGED <<token, creq, attempt, max_retries, backoff_attempt,
                           result, resps, retry_pending, slept>>
       ELSE \E ok \in BOOLEAN :
               IF ok
               THEN /\ token' = "valid"
                    /\ cpc' = "acquire"
                    /\ UNCHANGED <<creq, attempt, max_retries, backoff_attempt,
                                   result, resps, retry_pending, slept>>
               ELSE /\ UNCHANGED token
                    /\ IF RequestTryCovers("ensure")
                       THEN GenericException(resps)
                       ELSE FinishRequest(DataNone, TRUE, resps)
    /\ UNCHANGED rate_limit_hits
    /\ CountTokenRequests(IF token = "valid" THEN 0 ELSE 1)

\* "await self.rate_limiter.acquire()"
AwaitRateLimiter ==
    /\ UNCHANGED <<notCL, token_requests>>
    /\ permit' = TRUE
    /\ cpc = "acquire"
    /\ cpc' = "delay"
    /\ UNCHANGED <<creq, token, attempt, max_retries, backoff_attempt,
                   rate_limit_hits, result, resps, retry_pending, slept>>

\* "await self._random_delay()"
RandomDelay ==
    /\ UNCHANGED <<notCL, permit>>
    /\ UNCHANGED token_requests
    /\ cpc = "delay"
    /\ cpc' = "send"
    /\ \E d \in MinDelay..MaxDelay :
          slept' = IF retry_pending = NoPending THEN slept ELSE slept + d
    /\ UNCHANGED <<creq, token, attempt, max_retries, backoff_attempt,
                   rate_limit_hits, result, resps, retry_pending>>

\* "response = await self.client.request(...)" and what the loop body does
\* with the response up to its next await or return.
SendRequest ==
    /\ UNCHANGED notCL
    /\ permit' = FALSE
    /\ cpc = "send"
    /\ \E r \in Responses :
          LET log == Append(resps, r) IN
          /\ r.code = 429 => rate_limit_hits < MaxHits
          /\ IF r.code = 0
             THEN GenericException(log) /\ UNCHANGED <<token, rate_limit_hits>>
             ELSE IF r.code = 429
             THEN IF RetryAfterParses(r.retry_after)
                  THEN /\ rate_limit_hits' = HitsAfter429(rate_limit_hits)
                       /\ retry_pending' = RetryAfterSeconds(r.retry_after)
                       /\ slept' = 0
                       /\ cpc' = "sleep429"
                       /\ resps' = log
                       /\ UNCHANGED <<creq, token, attempt, max_retries,
                                      backoff_attempt, result>>
                  ELSE GenericException(log)
                       /\ UNCHANGED <<token, rate_limit_hits>>
             ELSE IF r.code = 401
             THEN /\ token' = "none"
                  /\ cpc' = "reauth"
                  /\ resps' = log
                  /\ retry_pending' = NoPending
                  /\ slept' = 0
                  /\ UNCHANGED <<creq, attempt, max_retries, backoff_attempt,
                                 rate_limit_hits, result>>
             ELSE IF r.code = 302
             THEN FinishRequest(DataNone, FALSE, log)
                  /\ UNCHANGED <<token, rate_limit_hits>>
             ELSE IF r.code = 200
             THEN /\ IF r.body.shape = "notjson"
                     THEN GenericException(log)
                     ELSE FinishRequest(DataJson(r.body), FALSE, log)
                  /\ UNCHANGED <<token, rate_limit_hits>>
             ELSE IF IsTerminalMarker(r.code)
             THEN FinishRequest(DataMarker(r.code), FALSE, log)
                  /\ UNCHANGED <<token, rate_limit_hits>>
             ELSE IF IsServerError(r.code)
             THEN /\ cpc' = "backoff"
                  /\ resps' = log
                  /\ retry_pending' = NoPending
                  /\ slept' = 0
                  /\ UNCHANGED <<creq, token, attempt, max_retries,
                                 backoff_attempt, rate_limit_hits, result>>
             ELSE FinishRequest(DataNone, FALSE, log)
                  /\ UNCHANGED <<token, rate_limit_hits>>
    /\ CountTokenRequests(0)

\* "await asyncio.sleep(retry_after)" and "continue"
SleepRetryAfter ==
    /\ UNCHANGED <<notCL, permit>>
    /\ cpc = "sleep429"
    /\ NextAttempt(backoff_attempt, slept + SleepSeconds(retry_pending))
    /\ UNCHANGED <<token, rate_limit_hits>>
    /\ CountTokenRequests(0)

\* "await self._authenticate()" after a 401, and "continue"; a failure is an
\* exception inside the try.
Reauthenticate ==
    /\ UNCHANGED <<notCL, permit>>
    /\ cpc = "reauth"
    /\ \E ok \in BOOLEAN :
          IF ok
          THEN /\ token' = "valid"
               /\ NextAttempt(backoff_attempt, slept)
          ELSE /\ UNCHANGED token
               /\ IF RequestTryCovers("reauth")
                  THEN GenericException(resps)
                  ELSE FinishRequest(DataNone, TRUE, resps)
    /\ UNCHANGED rate_limit_hits
    /\ CountTokenRequests(1)

\* "await backoff.wait()" and "continue": wait() sleeps, then increments
\* current_attempt.
BackoffWait ==
    /\ UNCHANGED <<notCL, permit>>
    /\ cpc = "backoff"
    /\ NextAttempt(backoff_attempt + 1, slept)
    /\ UNCHANGED <<token, rate_limit_hits>>
    /\ CountTokenRequests(0)

\* The caller takes the pair.
ReturnToCaller ==
    /\ UNCHANGED <<notCL, permit>>
    /\ token_requests' = 0
    /\ cpc = "returned"
    /\ cpc' = "idle"
    /\ result' = NoResult
    /\ resps' = <<>>
    /\ UNCHANGED <<creq, token, attempt, max_retries, backoff_attempt,
                   rate_limit_hits, retry_pending, slept>>

CLNext ==
    \/ Initialize
    \/ TokenExpires
    \/ CallInfo
    \/ EnsureTokenValid
    \/ AwaitRateLimiter
    \/ RandomDelay
    \/ SendRequest
    \/ SleepRetryAfter
    \/ Reauthenticate
    \/ BackoffWait
    \/ ReturnToCaller

(***************************************************************************)
(* Database: the subreddits table                                          *)
(***************************************************************************)

Keys == {"a", "b"}           \* subreddit names, lower case
NoKey == "none"

\* A row: status, metadata_collected, retry_count, and last_updated against
\* the staleness cutoff ("never": NULL, "fresh": newer, "stale": older).
Absent ==
    [status |-> "absent", collected |-> FALSE, retry |-> 0, updated |-> "never"]
Exists_Never(k) == FALSE
Exists(k) == store[k] # Absent

\* add_subreddit: INSERT OR IGNORE ... VALUES (?, 'pending', 0).
PendingRow ==
    [status |-> "pending", collected |-> FALSE, retry |-> 0, updated |-> "never"]
\* name.lower(): "A" stands for the names that are not in lower case.
AddNames == Keys \cup {"A"}
Lower(name) == IF name = "A" THEN "a" ELSE name
add_subreddit_Replace(db, name) == [db EXCEPT ![Lower(name)] = PendingRow]
add_subreddit(db, name) ==
    LET k == Lower(name)
    IN IF db[k] = Absent THEN [db EXCEPT ![k] = PendingRow] ELSE db

\* An UPDATE ... WHERE name = ? changes the row when there is one.
UpdateRow(db, k, row) == IF db[k] = Absent THEN db ELSE [db EXCEPT ![k] = row]

\* update_subreddit(subreddit, status, error_message, metadata_collected):
\* metadata_collected is written only when it is given.
update_subreddit(db, k, status) ==
    UpdateRow(db, k, [db[k] EXCEPT !.status = status])
update_subreddit_collected_StatusOnly(db, k, status, metadata_collected) ==
    UpdateRow(db, k, [db[k] EXCEPT !.status = status])
update_subreddit_collected(db, k, status, metadata_collected) ==
    UpdateRow(db, k, [db[k] EXCEPT !.status = status,
                                   !.collected = metadata_collected])

\* update_subreddit_status(name, status)
update_subreddit_status(db, k, status) ==
    UpdateRow(db, k, [db[k] EXCEPT !.status = status])

\* update_subreddit_metadata: status = 'active', last_updated = now.
update_subreddit_metadata(db, k) ==
    UpdateRow(db, k, [db[k] EXCEPT !.status = "active", !.updated = "fresh"])

\* "UPDATE subreddits SET retry_count = ? WHERE name = ?"
set_retry_count(db, k, n) == UpdateRow(db, k, [db[k] EXCEPT !.retry = n])

\* "DELETE FROM subreddits WHERE name = ?"
delete_row(db, k) == [db EXCEPT ![k] = Absent]

(***************************************************************************)
(* SubredditScanner.process_subreddit                                      *)
(***************************************************************************)

\* What get_subreddit_info can give the scanner: a pair, and the 429s it met
\* on the way (one request of the diversity call, three of the main call; a
\* call that met four was answered by nothing else).
HitsPerCall == 0..(DiversityMaxRetries + MainMaxRetries)
InfoResults ==
    {ErrorResult, Pair(NoMetadata, "notfound"), Pair(NoMetadata, "deleted")}
    \cup {ClassifyPayload(b) : b \in Payloads}
\* metadata.get('subscribers', 0) or 0 of an active subreddit.
SubscriberCounts == {0, MinSubscribers - 1, MinSubscribers}
FetchOutcomes ==
    {o \in [result : InfoResults, hits : HitsPerCall,
            subscribers : SubscriberCounts] :
        /\ o.hits < DiversityMaxRetries + MainMaxRetries
               \/ o.result = ErrorResult
        /\ o.subscribers = 0
               \/ (o.result.status = "active" /\ o.result.metadata # NoMetadata)}

\* "if metadata and metadata.get('subreddit_type') == 'user'"
IsUserProfile(r) ==
    r.metadata # NoMetadata /\ r.metadata.subreddit_type = "user"

\* "self.consecutive_403s += 1"
Strike_Twice(c403) == c403 + 2
Strike(c403) == c403 + 1

\* "if retry_count >= 3": the third strike removes the row.
StruckOut_After(n) == n > RetryLimit
StruckOut(n) == n >= RetryLimit

\* The 'notfound' branch: the row is deleted whatever its retry_count.
NotFoundStore_Strikes(db, k, n) ==
    IF StruckOut(n + 1) THEN delete_row(db, k) ELSE set_retry_count(db, k, n + 1)
NotFoundStore(db, k, n) == delete_row(db, k)

\* The try block of process_subreddit once get_subreddit_info has returned r,
\* n being the row's retry_count (0 without a row): the new table, the new
\* consecutive_403s, the local retry_count and whether the subreddit counts
\* as processed.
Outcome(db, c403, n, done) ==
    [db |-> db, c403 |-> c403, retry_count |-> n, processed |-> done]

RowRetry(db, k) == IF db[k] = Absent THEN 0 ELSE db[k].retry

ApplyResult(db, k, r, c403) ==
    LET n == RowRetry(db, k) IN
    IF IsUserProfile(r)
    THEN Outcome(delete_row(db, k), c403, 0, 0)
    ELSE IF r.status = "active" /\ r.metadata # NoMetadata
    THEN Outcome(set_retry_count(
                     update_subreddit_collected(
                         update_subreddit_metadata(db, k), k, "active", TRUE),
                     k, 0),
                 0, 0, 1)
    ELSE IF r.status = "notfound"
    THEN Outcome(NotFoundStore(db, k, n), 0, n, 0)
    ELSE IF r.status = "deleted"
    THEN IF StruckOut(n + 1)
         THEN Outcome(delete_row(db, k), 0, n + 1, 0)
         ELSE Outcome(set_retry_count(db, k, n + 1), Strike(c403), n + 1, 0)
    ELSE Outcome(set_retry_count(
                     update_subreddit_collected(
                         update_subreddit_status(db, k, r.status),
                         k, r.status, TRUE),
                     k, 0),
                 0, n, 0)

\* No function has been called alone.
NoCall == [fn |-> "none"]

\* A new SubredditScanner, whatever the table holds.
ScannerNew ==
    /\ consecutive_403s = 0
    /\ total_429s = 0
    /\ shutdown_requested = FALSE
    /\ subreddits_processed = 0
    /\ subreddits_failed = 0
    /\ spc = "idle"
    /\ current = NoKey
    /\ fetched = NoResult
    /\ retry_count = 0
    /\ item_raised = FALSE
    /\ calls = 0
    /\ mode = "none"
    /\ running = FALSE
    /\ worklist = <<>>
    /\ idx = 0
    /\ rows_to_keep = <<>>
    /\ processed = 0
    /\ limit = 0
    /\ runs = 1
    /\ csv_file = <<>>
    /\ signal_in_flight = FALSE
    /\ db_calls = <<>>
    /\ fn_call = NoCall
    /\ exit_code = NoExit
    /\ loop_raised = FALSE
    /\ interrupted = FALSE

\* A new scanner on a new, empty database.
SCInit ==
    /\ store = [k \in Keys |-> Absent]
    /\ ScannerNew

\* Calls of process_subreddit made so far are bounded.
ItemsLeft == calls < MaxItems

\* db.add_subreddit(name)
AddSubreddit(k) ==
    /\ UNCHANGED <<notItem, rate_limit_hits>>
    /\ spc = "idle"
    /\ store' = add_subreddit(store, k)
    /\ UNCHANGED scVars

\* process_subreddit(k) up to "await get_subreddit_info": the row is marked
\* 'processing'.
BeginItem(k) ==
    /\ calls' = calls + 1
    /\ store' = update_subreddit(store, k, "processing")
    /\ current' = k
    /\ fetched' = NoResult
    /\ retry_count' = 0
    /\ item_raised' = FALSE

\* process_subreddit from the return of get_subreddit_info to its own return:
\* the try block, or the except clause when a statement of the try block
\* raises (the row is then marked 'error' and the failure counted).
FinishItem(o, raises) ==
        /\ rate_limit_hits + o.hits <= MaxScanHits
        /\ rate_limit_hits' = rate_limit_hits + o.hits
        /\ fetched' = o.result
        /\ item_raised' = raises
        /\ IF raises
           THEN /\ store' = update_subreddit(store, current, "error")
                /\ subreddits_failed' = subreddits_failed + 1
                /\ UNCHANGED <<consecutive_403s, subreddits_processed,
                               retry_count>>
           ELSE LET out == ApplyResult(store, current, o.result,
                                       consecutive_403s)
                IN /\ store' = out.db
                   /\ consecutive_403s' = out.c403
                   /\ retry_count' = out.retry_count
                   /\ subreddits_processed' =
                          subreddits_processed + out.processed
                   /\ UNCHANGED subreddits_failed

\* process_subreddit is called on a row of the table.
CallProcess(k) ==
    /\ UNCHANGED <<notItem, rate_limit_hits>>
    /\ spc = "idle"
    /\ Exists(k)
    /\ ItemsLeft
    /\ BeginItem(k)
    /\ spc' = "fetch"
    /\ UNCHANGED <<consecutive_403s, total_429s, shutdown_requested,
                   subreddits_processed, subreddits_failed>>

\* get_subreddit_info returns and process_subreddit runs to its end; the
\* stubbed client meets no 429.
ProcessReturns ==
    /\ UNCHANGED notItem
    /\ spc = "fetch"
    /\ \E o \in FetchOutcomes, raises \in BOOLEAN :
           o.hits = 0 /\ FinishItem(o, raises)
    /\ spc' = "processed"
    /\ UNCHANGED <<total_429s, shutdown_requested, current, calls>>

\* The caller of process_subreddit goes on.
ProcessDone ==
    /\ UNCHANGED <<notItem, rate_limit_hits>>
    /\ spc = "processed"
    /\ spc' = "idle"
    /\ current' = NoKey
    /\ fetched' = NoResult
    /\ retry_count' = 0
    /\ item_raised' = FALSE
    /\ UNCHANGED <<dbVars, consecutive_403s, total_429s, shutdown_requested,
                   subreddits_processed, subreddits_failed, calls>>

ItemNext ==
    \/ \E k \in Keys : AddSubreddit(k)
    \/ \E k \in Keys : CallProcess(k)
    \/ ProcessReturns
    \/ ProcessDone

(***************************************************************************)
(* One scanner process: SubredditScanner.run and run_csv_scan              *)
(***************************************************************************)

Limits == {0, 1}             \* --limit; 0 when it is not given

\* _check_error_thresholds, of consecutive_403s and the client's
\* rate_limit_hits.
_check_error_thresholds_Strict(c403, hits) == c403 > Max403 \/ hits > Max429
_check_error_thresholds(c403, hits) == c403 >= Max403 \/ hits >= Max429

\* fix_inconsistent_states: the two UPDATE statements, one after the other.
FixPendingWithMetadata(db) ==
    [k \in Keys |->
        IF db[k].status = "pending" /\ db[k].collected
        THEN [db[k] EXCEPT !.collected = FALSE]
        ELSE db[k]]
FixCompletedWithoutMetadata(db) ==
    [k \in Keys |->
        IF db[k].status = "completed" /\ ~db[k].collected
        THEN [db[k] EXCEPT !.status = "pending"]
        ELSE db[k]]
fix_inconsistent_states_FirstOnly(db) == FixPendingWithMetadata(db)
fix_inconsistent_states(db) ==
    FixCompletedWithoutMetadata(FixPendingWithMetadata(db))

\* get_subreddits_for_update: the rows with metadata_collected = 1 and
\* status = 'active' that were never updated or are stale, the never updated
\* ones first (subscribers, which order the rest, are not kept in the rows),
\* cut to the limit when one is given.
NeedsUpdate(row) ==
    row.collected /\ row.status = "active" /\ row.updated \in {"never", "stale"}
Perms(S) ==
    {f \in [1..Cardinality(S) -> S] :
        \A i, j \in 1..Cardinality(S) : f[i] = f[j] => i = j}
Take(seq, n) == IF n # 0 /\ n < Len(seq) THEN SubSeq(seq, 1, n) ELSE seq
get_subreddits_for_update(db, lim) ==
    LET due == {k \in Keys : NeedsUpdate(db[k])}
        ordered ==
            {f \in Perms(due) :
                \A i, j \in 1..Cardinality(due) :
                    (db[f[i]].updated = "never" /\ db[f[j]].updated = "stale")
                        => i < j}
    IN {Take(f, lim) : f \in ordered}

\* _interleave_with_random. ordered_idx counts the names of the ordered list
\* gone past; the inner while loop skips the names already used.
RECURSIVE SkipUsed(_, _, _)
SkipUsed_Stay(ordered, remaining, ordered_idx) == ordered_idx
SkipUsed(ordered, remaining, ordered_idx) ==
    IF ordered_idx < Len(ordered) /\ ordered[ordered_idx + 1] \notin remaining
    THEN SkipUsed(ordered, remaining, ordered_idx + 1)
    ELSE ordered_idx

\* One turn of "while remaining": the next name of the ordered list that is
\* still remaining, then a random one of the remaining names.
RECURSIVE Interleave(_, _, _, _)
Interleave(ordered, remaining, res, ordered_idx) ==
    IF remaining = {} THEN {res}
    ELSE LET at == IF /\ ordered_idx < Len(ordered)
                      /\ ordered[ordered_idx + 1] \in remaining
                   THEN ordered_idx
                   ELSE SkipUsed(ordered, remaining, ordered_idx)
             took == at < Len(ordered)
             sub == ordered[at + 1]
             res1 == IF took THEN Append(res, sub) ELSE res
             remaining1 == IF took THEN remaining \ {sub} ELSE remaining
             at1 == IF took THEN at + 1 ELSE at
         IN IF remaining1 = {} THEN {res1}
            ELSE UNION {Interleave(ordered, remaining1 \ {random_pick},
                                   Append(res1, random_pick), at1) :
                            random_pick \in remaining1}
_interleave_with_random(ordered) ==
    IF Len(ordered) <= 2 THEN {ordered}
    ELSE Interleave(ordered, {ordered[i] : i \in 1..Len(ordered)}, <<>>, 0)

\* The CSV file: rows of a name as written and a subscriber count.
RawNames == {"a", "A ", "b"}
\* row['subreddit'].strip().lower()
Normalise(raw) == CASE raw = "a" -> "a" [] raw = "A " -> "a" [] raw = "b" -> "b"
CsvRow(name, subs) == [subreddit |-> name, subscribers |-> subs]
CsvRows == {CsvRow("a", 1), CsvRow("A ", 2), CsvRow("b", 1)}
CsvFiles == UNION {[1..n -> CsvRows] : n \in 1..MaxRows}

\* csv_rows.sort(key=int(subscribers), reverse=True): a stable sort.
InsertDesc(sorted, row) ==
    LET n == Cardinality({i \in 1..Len(sorted) :
                             sorted[i].subscribers >= row.subscribers})
    IN SubSeq(sorted, 1, n) \o <<row>> \o SubSeq(sorted, n + 1, Len(sorted))
RECURSIVE SortDesc(_)
SortDesc(rows) ==
    IF rows = <<>> THEN <<>>
    ELSE InsertDesc(SortDesc(SubSeq(rows, 1, Len(rows) - 1)), rows[Len(rows)])

\* csv_rows[idx:]
Rest(rows, i) == SubSeq(rows, i + 1, Len(rows))

\* The rows of the work list are not all done.
MoreRows == idx < Len(worklist)

\* "if self.shutdown_requested: ... break" at the top of both loops.
BreaksOnShutdown_Never(flag) == FALSE
BreaksOnShutdown(flag) == flag

\* The locals of one iteration are gone.
ForgetItem ==
    /\ current' = NoKey
    /\ fetched' = NoResult
    /\ retry_count' = 0
    /\ item_raised' = FALSE
    /\ signal_in_flight' = FALSE

\* The locals of a scan are gone.
ForgetLoop ==
    /\ worklist' = <<>>
    /\ idx' = 0
    /\ rows_to_keep' = <<>>
    /\ processed' = 0

\* The user puts a list of subreddits in the CSV file.
UserWritesCsv ==
    /\ UNCHANGED <<notSC, histVars, procVars, rate_limit_hits>>
    /\ spc = "idle"
    /\ runs = 1
    /\ csv_file = <<>>
    /\ csv_file' \in CsvFiles
    /\ UNCHANGED <<dbVars, scVars, runVars>>

\* run() down to the loop: the inconsistent states are fixed and the rows to
\* update are listed and interleaved.
StartUpdate ==
    /\ UNCHANGED <<notSC, histVars, procVars, rate_limit_hits>>
    /\ spc = "idle"
    /\ \E lim \in Limits :
        LET fixed == fix_inconsistent_states(store) IN
        /\ limit' = lim
        /\ store' = fixed
        /\ \E due \in get_subreddits_for_update(fixed, lim) :
               worklist' \in _interleave_with_random(due)
    /\ mode' = "update"
    /\ running' = TRUE
    /\ idx' = 0
    /\ spc' = IF worklist' = <<>> THEN "report" ELSE "top"
    /\ UNCHANGED <<consecutive_403s, total_429s, shutdown_requested,
                   subreddits_processed, subreddits_failed, current, fetched,
                   retry_count, item_raised, calls, rows_to_keep, processed,
                   runs, fsVars>>

\* The top of the loop of run(): the loop ends, or breaks on the shutdown
\* flag or on the thresholds, or process_subreddit is called and runs to
\* "await get_subreddit_info".
UpdateLoopTop ==
    /\ UNCHANGED <<notSC, histVars, procVars, rate_limit_hits>>
    /\ spc = "top"
    /\ mode = "update"
    /\ IF ~MoreRows \/ BreaksOnShutdown(shutdown_requested)
       THEN /\ spc' = "report"
            /\ UNCHANGED <<dbVars, total_429s, shutdown_requested, current,
                           fetched, retry_count, item_raised, calls>>
       ELSE /\ total_429s' = rate_limit_hits
            /\ IF _check_error_thresholds(consecutive_403s, rate_limit_hits)
               THEN /\ shutdown_requested' = TRUE
                    /\ spc' = "report"
                    /\ UNCHANGED <<dbVars, current, fetched, retry_count,
                                   item_raised, calls>>
               ELSE /\ BeginItem(worklist[idx + 1])
                    /\ spc' = "fetch"
                    /\ UNCHANGED shutdown_requested
    /\ UNCHANGED <<consecutive_403s, subreddits_processed, subreddits_failed,
                   runVars, fsVars>>

\* get_subreddit_info returns, process_subreddit runs to its end and run()
\* checks the thresholds again: it breaks, or goes on to the cooldown.
UpdateItemReturns ==
    /\ UNCHANGED <<notSC, histVars, procVars>>
    /\ spc = "fetch"
    /\ mode = "update"
    /\ \E o \in FetchOutcomes, raises \in BOOLEAN : FinishItem(o, raises)
    /\ total_429s' = rate_limit_hits'
    /\ LET halt == _check_error_thresholds(consecutive_403s', rate_limit_hits')
       IN /\ shutdown_requested' = (shutdown_requested \/ halt)
          /\ spc' = IF halt THEN "report" ELSE "cooldown"
    /\ UNCHANGED <<current, calls, runVars, fsVars>>

\* The end of an iteration of either loop: the cooldown and the batch pause
\* are over (or were skipped), the next row is looked at.
LoopNext ==
    /\ UNCHANGED <<notSC, db_calls, fn_call, procVars, rate_limit_hits>>
    /\ spc = "cooldown"
    /\ idx' = idx + 1
    /\ spc' = "top"
    /\ ForgetItem
    /\ UNCHANGED <<dbVars, consecutive_403s, total_429s, shutdown_requested,
                   subreddits_processed, subreddits_failed, calls, mode,
                   running, worklist, rows_to_keep, processed, limit, runs,
                   fsVars>>

\* run() after its loop: _report_final, and the finally clause.
ReportFinal ==
    /\ UNCHANGED <<notSC, db_calls, fn_call, loop_raised, interrupted,
                   rate_limit_hits>>
    /\ exit_code' = ExitClean
    /\ spc = "report"
    /\ running' = FALSE
    /\ spc' = "done"
    /\ ForgetItem
    /\ ForgetLoop
    /\ UNCHANGED <<dbVars, consecutive_403s, total_429s, shutdown_requested,
                   subreddits_processed, subreddits_failed, calls, mode,
                   limit, runs, fsVars>>

\* run_csv_scan() down to its loop: the file is loaded and sorted.
StartCsvScan ==
    /\ UNCHANGED <<notSC, histVars, procVars, rate_limit_hits>>
    /\ spc = "idle"
    /\ worklist' = SortDesc(csv_file)
    /\ \E lim \in Limits : limit' = IF lim # 0 THEN lim ELSE Len(csv_file)
    /\ mode' = "scan_csv"
    /\ running' = TRUE
    /\ idx' = 0
    /\ processed' = 0
    /\ rows_to_keep' = <<>>
    /\ spc' = "top"
    /\ UNCHANGED <<dbVars, consecutive_403s, total_429s, shutdown_requested,
                   subreddits_processed, subreddits_failed, current, fetched,
                   retry_count, item_raised, calls, runs, fsVars>>

\* The top of the loop of run_csv_scan(): the loop ends, or breaks on the
\* shutdown flag, on the thresholds or on the limit and keeps the rows not
\* looked at, or the row is dropped as a duplicate, or its subreddit is added
\* as pending and get_subreddit_info awaited.
CsvLoopTop ==
    /\ UNCHANGED <<notSC, histVars, procVars, rate_limit_hits>>
    /\ spc = "top"
    /\ mode = "scan_csv"
    /\ IF ~MoreRows
       THEN /\ spc' = "save"
            /\ UNCHANGED <<dbVars, total_429s, shutdown_requested, current,
                           rows_to_keep, processed>>
       ELSE IF BreaksOnShutdown(shutdown_requested)
       THEN /\ rows_to_keep' = rows_to_keep \o Rest(worklist, idx)
            /\ spc' = "save"
            /\ UNCHANGED <<dbVars, total_429s, shutdown_requested, current,
                           processed>>
       ELSE /\ total_429s' = rate_limit_hits
            /\ IF _check_error_thresholds(consecutive_403s, rate_limit_hits)
               THEN /\ shutdown_requested' = TRUE
                    /\ rows_to_keep' = rows_to_keep \o Rest(worklist, idx)
                    /\ spc' = "save"
                    /\ UNCHANGED <<dbVars, current, processed>>
               ELSE IF processed >= limit
               THEN /\ rows_to_keep' = rows_to_keep \o Rest(worklist, idx)
                    /\ spc' = "save"
                    /\ UNCHANGED <<dbVars, shutdown_requested, current,
                                   processed>>
               ELSE LET subreddit == Normalise(worklist[idx + 1].subreddit)
                    IN IF Exists(subreddit)
                       THEN /\ processed' = processed + 1
                            /\ spc' = "cooldown"
                            /\ UNCHANGED <<dbVars, shutdown_requested,
                                           current, rows_to_keep>>
                       ELSE /\ store' = add_subreddit(store, subreddit)
                            /\ current' = subreddit
                            /\ spc' = "fetch"
                            /\ UNCHANGED <<shutdown_requested, rows_to_keep,
                                           processed>>
    /\ UNCHANGED <<consecutive_403s, subreddits_processed, subreddits_failed,
                   fetched, retry_count, item_raised, calls, mode, running,
                   worklist, idx, limit, runs, fsVars>>

\* The except clause of run_csv_scan: "rows_to_keep.append(row)".
KeepOnError_Drop(keep, row) == keep
KeepOnError(keep, row) == Append(keep, row)

\* The try block of run_csv_scan once get_subreddit_info has returned o for
\* subreddit k: the new table, the new consecutive_403s, and whether the
\* iteration ends with "continue".
CsvOutcome(db, c403, skip) == [db |-> db, c403 |-> c403, skip |-> skip]

CsvApplyResult(db, k, o, c403) ==
    LET r == o.result IN
    IF IsUserProfile(r)
    THEN CsvOutcome(delete_row(db, k), c403, TRUE)
    ELSE IF r.status = "active" /\ r.metadata # NoMetadata
    THEN IF o.subscribers < MinSubscribers
         THEN CsvOutcome(delete_row(db, k), 0, TRUE)
         ELSE CsvOutcome(update_subreddit_collected(
                             update_subreddit_metadata(db, k), k, "active",
                             TRUE),
                         0, FALSE)
    ELSE IF r.status \in {"notfound", "deleted"}
    THEN CsvOutcome(delete_row(db, k), 0, FALSE)
    ELSE CsvOutcome(update_subreddit_collected(
                        update_subreddit_status(db, k, r.status), k, r.status,
                        TRUE),
                    0, FALSE)

\* get_subreddit_info returns to run_csv_scan: the try block, or its except
\* clause, which keeps the row; then the iteration ends, with "continue" or
\* with the count of processed rows and the cooldown.
CsvItemReturns ==
    /\ UNCHANGED <<notSC, histVars, procVars>>
    /\ spc = "fetch"
    /\ mode = "scan_csv"
    /\ \E o \in FetchOutcomes, raises \in BOOLEAN :
        /\ rate_limit_hits + o.hits <= MaxScanHits
        /\ rate_limit_hits' = rate_limit_hits + o.hits
        /\ IF raises
           THEN /\ rows_to_keep' = KeepOnError(rows_to_keep, worklist[idx + 1])
                /\ processed' = processed + 1
                /\ spc' = "cooldown"
                /\ fetched' = o.result
                /\ item_raised' = TRUE
                /\ UNCHANGED <<dbVars, consecutive_403s, current, idx>>
           ELSE LET out == CsvApplyResult(store, current, o,
                                          consecutive_403s)
                IN /\ store' = out.db
                   /\ consecutive_403s' = out.c403
                   /\ UNCHANGED rows_to_keep
                   /\ IF out.skip
                      THEN /\ idx' = idx + 1
                           /\ spc' = "top"
                           /\ current' = NoKey
                           /\ fetched' = NoResult
                           /\ item_raised' = FALSE
                           /\ UNCHANGED processed
                      ELSE /\ processed' = processed + 1
                           /\ spc' = "cooldown"
                           /\ fetched' = o.result
                           /\ item_raised' = FALSE
                           /\ UNCHANGED <<current, idx>>
    /\ UNCHANGED <<total_429s, shutdown_requested, subreddits_processed,
                   subreddits_failed, retry_count, calls, mode, running,
                   worklist, limit, runs, fsVars>>

\* run_csv_scan() after its loop: the rows kept are written to the file.
CsvSave ==
    /\ UNCHANGED <<notSC, db_calls, fn_call, loop_raised, interrupted,
                   rate_limit_hits>>
    /\ exit_code' = ExitClean
    /\ spc = "save"
    /\ csv_file' = rows_to_keep
    /\ running' = FALSE
    /\ spc' = "done"
    /\ ForgetItem
    /\ ForgetLoop
    /\ UNCHANGED <<dbVars, consecutive_403s, total_429s, shutdown_requested,
                   subreddits_processed, subreddits_failed, calls, mode,
                   limit, runs>>

\* dedupe_csv, step 1: the rows whose name, stripped and lower-cased, has not
\* been seen in an earlier row.
RECURSIVE UniqueFrom(_, _, _)
UniqueFrom(rows, seen_subreddits, unique_rows) ==
    IF rows = <<>> THEN unique_rows
    ELSE LET subreddit == Normalise(Head(rows).subreddit) IN
         IF subreddit \notin seen_subreddits
         THEN UniqueFrom(Tail(rows), seen_subreddits \cup {subreddit},
                         Append(unique_rows, Head(rows)))
         ELSE UniqueFrom(Tail(rows), seen_subreddits, unique_rows)

unique_rows_All(rows) == rows
unique_rows(rows) == UniqueFrom(rows, {}, <<>>)

\* dedupe_csv, step 2: the rows whose name is not in the table.
RECURSIVE NotInDb(_, _)
NotInDb(rows, db) ==
    IF rows = <<>> THEN <<>>
    ELSE IF db[Normalise(Head(rows).subreddit)] # Absent
    THEN NotInDb(Tail(rows), db)
    ELSE <<Head(rows)>> \o NotInDb(Tail(rows), db)

\* dedupe_csv(): the file is loaded, cleaned in two steps and written.
DedupeCsv ==
    /\ UNCHANGED <<notSC, histVars, loop_raised, interrupted, rate_limit_hits>>
    /\ exit_code' = ExitClean
    /\ spc = "idle"
    /\ csv_file # <<>>
    /\ mode' = "dedupe_csv"
    /\ worklist' = csv_file
    /\ rows_to_keep' = NotInDb(unique_rows(csv_file), store)
    /\ csv_file' = rows_to_keep'
    /\ spc' = "done"
    /\ UNCHANGED <<dbVars, consecutive_403s, total_429s, shutdown_requested,
                   subreddits_processed, subreddits_failed, current, fetched,
                   retry_count, item_raised, calls, running, idx, processed,
                   limit, runs>>

\* A statement of a scan loop outside the try block of the item raises (the
\* SELECT of run_csv_scan, the progress report or a sleep of run): the except
\* clause around the loop logs it, run() or run_csv_scan() returns, and main()
\* goes on to "return 0". The process that meets the exception is the last
\* one followed.
LoopRaises ==
    /\ UNCHANGED <<notSC, db_calls, fn_call, interrupted, rate_limit_hits>>
    /\ running
    /\ runs = MaxRuns
    /\ \/ spc = "cooldown"
       \/ /\ spc = "top"
          /\ mode = "scan_csv"
          /\ MoreRows
          /\ ~shutdown_requested
          /\ ~_check_error_thresholds(consecutive_403s, rate_limit_hits)
          /\ processed < limit
    /\ loop_raised' = TRUE
    /\ running' = FALSE
    /\ exit_code' = ExitClean
    /\ spc' = "done"
    /\ ForgetItem
    /\ ForgetLoop
    /\ UNCHANGED <<dbVars, consecutive_403s, total_429s, shutdown_requested,
                   subreddits_processed, subreddits_failed, calls, mode,
                   limit, runs, fsVars>>

\* A statement of run() or run_csv_scan() before the try block raises (the
\* queries of run, the load and the sort of run_csv_scan): main() catches it
\* and returns 1. The process that meets the exception is the last one
\* followed.
StartFails ==
    /\ UNCHANGED <<notSC, histVars, loop_raised, interrupted, rate_limit_hits>>
    /\ spc = "idle"
    /\ runs = MaxRuns
    /\ mode' \in {"update", "scan_csv"}
    /\ mode' = "scan_csv" => csv_file # <<>>
    /\ running' = TRUE
    /\ exit_code' = ExitFatal
    /\ spc' = "done"
    /\ UNCHANGED <<dbVars, consecutive_403s, total_429s, shutdown_requested,
                   subreddits_processed, subreddits_failed, current, fetched,
                   retry_count, item_raised, calls, worklist, idx,
                   rows_to_keep, processed, limit, runs, fsVars>>

\* _signal_handler: SIGINT or SIGTERM reaches the scan while its loop runs.
Signal ==
    /\ UNCHANGED <<notSC, db_calls, fn_call, exit_code, loop_raised,
                   rate_limit_hits>>
    /\ interrupted' = TRUE
    /\ running
    /\ spc \in {"top", "fetch", "cooldown"}
    /\ ~shutdown_requested
    /\ shutdown_requested' = TRUE
    /\ signal_in_flight' = (spc = "fetch")
    /\ UNCHANGED <<dbVars, consecutive_403s, total_429s, subreddits_processed,
                   subreddits_failed, spc, current, fetched, retry_count,
                   item_raised, calls, runVars, fsVars>>

\* Between two processes the rows updated by the first grow stale.
TimePasses ==
    /\ UNCHANGED <<notSC, histVars, procVars, rate_limit_hits>>
    /\ spc = "done"
    /\ \E k \in Keys : store[k].updated = "fresh"
    /\ store' = [k \in Keys |->
                    IF store[k].updated = "fresh"
                    THEN [store[k] EXCEPT !.updated = "stale"] ELSE store[k]]
    /\ UNCHANGED <<scVars, runVars, fsVars>>

\* The process ends and the scanner is started again: a new SubredditScanner
\* and a new RedditAPIClient on the same database and the same file.
NewProcess ==
    /\ UNCHANGED <<notSC, histVars>>
    /\ exit_code' = NoExit
    /\ loop_raised' = FALSE
    /\ interrupted' = FALSE
    /\ running' = FALSE
    /\ spc = "done"
    /\ runs < MaxRuns
    /\ runs' = runs + 1
    /\ rate_limit_hits' = 0
    /\ consecutive_403s' = 0
    /\ total_429s' = 0
    /\ shutdown_requested' = FALSE
    /\ subreddits_processed' = 0
    /\ subreddits_failed' = 0
    /\ spc' = "idle"
    /\ mode' = "none"
    /\ worklist' = <<>>
    /\ idx' = 0
    /\ rows_to_keep' = <<>>
    /\ processed' = 0
    /\ limit' = 0
    /\ UNCHANGED <<dbVars, current, fetched, retry_count, item_raised, calls,
                   fsVars>>

RunNext ==
    \/ UserWritesCsv
    \/ StartUpdate
    \/ UpdateLoopTop
    \/ UpdateItemReturns
    \/ LoopNext
    \/ ReportFinal
    \/ StartCsvScan
    \/ CsvLoopTop
    \/ CsvItemReturns
    \/ CsvSave
    \/ DedupeCsv
    \/ LoopRaises
    \/ StartFails
    \/ Signal
    \/ TimePasses
    \/ NewProcess

RLNext ==
    \/ \E c \in Callers : AcquireCall(c)
    \/ \E c \in Callers : AcquireLock(c)
    \/ \E c \in Callers : CheckWindows(c)
    \/ \E c \in Callers : RecordGrant(c)
    \/ \E c \in Callers : WakeUp(c)
    \/ Tick
    \/ SleepThrough

Init == RLInit /\ CLInit /\ SCInit

SpecRL == Init /\ [][RLNext]_vars

SpecClient == Init /\ [][CLNext]_vars

\* Every await of a call under way returns: acquire() is called without a
\* timeout, the sleeps are finite and the HTTP client has a timeout of 30 s.
CallProgress ==
    /\ WF_vars(EnsureTokenValid)
    /\ WF_vars(AwaitRateLimiter)
    /\ WF_vars(RandomDelay)
    /\ WF_vars(SendRequest)
    /\ WF_vars(SleepRetryAfter)
    /\ WF_vars(Reauthenticate)
    /\ WF_vars(BackoffWait)

SpecClientFair == Init /\ [][CLNext]_vars /\ CallProgress

SpecItem == Init /\ [][ItemNext]_vars

SpecRun == Init /\ [][RunNext]_vars

(***************************************************************************)
(* The methods of Database called on any table.                            *)
(***************************************************************************)

\* The rows a table can hold besides none.
Statuses == {"pending", "processing", "active", "error", "completed"}
Rows ==
    [status : Statuses, collected : BOOLEAN, retry : {0, 1},
     updated : {"never", "fresh"}]
Tables == [Keys -> Rows \cup {Absent}]

DbInit == RLInit /\ CLInit /\ ScannerNew /\ store \in Tables

\* A call as the history keeps it: the method, its argument, the table
\* before it and the table after it.
DbCall(op, name, before, after) ==
    [op |-> op, name |-> name, before |-> before, after |-> after]

\* db.add_subreddit(name)
DbAdd(name) ==
    /\ UNCHANGED <<notSC, rate_limit_hits, scVars, runVars, fsVars,
                   signal_in_flight, fn_call, procVars>>
    /\ Len(db_calls) < MaxDbCalls
    /\ store' = add_subreddit(store, name)
    /\ db_calls' = Append(db_calls, DbCall("add_subreddit", name, store, store'))

\* db.fix_inconsistent_states()
DbFix ==
    /\ UNCHANGED <<notSC, rate_limit_hits, scVars, runVars, fsVars,
                   signal_in_flight, fn_call, procVars>>
    /\ Len(db_calls) < MaxDbCalls
    /\ store' = fix_inconsistent_states(store)
    /\ db_calls' = Append(db_calls, DbCall("fix_inconsistent_states", NoKey,
                                           store, store'))

DbNext ==
    \/ \E name \in AddNames : DbAdd(name)
    \/ DbFix

SpecDb == DbInit /\ [][DbNext]_vars

(***************************************************************************)
(* A scan started on any table, followed up to its first request.          *)
(***************************************************************************)

FirstFetchNext ==
    \/ UserWritesCsv
    \/ StartUpdate
    \/ StartCsvScan
    \/ UpdateLoopTop
    \/ CsvLoopTop
    \/ LoopNext

SpecFirstFetch == DbInit /\ [][FirstFetchNext]_vars

(***************************************************************************)
(* _interleave_with_random called on any ordered list of distinct names.   *)
(***************************************************************************)

\* The names of a list: 1 stands for a name, 2 for another, and so on.
ListNames == 1..MaxList
OrderedLists ==
    UNION {{f \in [1..n -> ListNames] :
               \A i, j \in 1..n : f[i] = f[j] => i = j} : n \in 0..MaxList}

FnCall(fn, arg, out) == [fn |-> fn, arg |-> arg, out |-> out]

\* Everything but the history of the function called alone.
notFn == <<rlVars, clVars, dbVars, scVars, runVars, fsVars, signal_in_flight,
           db_calls, procVars>>

CallInterleave ==
    /\ UNCHANGED notFn
    /\ \E ordered \in OrderedLists :
          \E out \in _interleave_with_random(ordered) :
              fn_call' = FnCall("_interleave_with_random", ordered, out)

SpecInterleave == Init /\ [][CallInterleave]_vars

(***************************************************************************)
(* ExponentialBackoff taken alone. Delays are in hundredths of a second,   *)
(* the jitter factor in percent.                                           *)
(***************************************************************************)

RECURSIVE Pow(_, _)
Pow(b, k) == IF k = 0 THEN 1 ELSE b * Pow(b, k - 1)

Min(x, y) == IF x <= y THEN x ELSE y

\* random.uniform(0.75, 1.25)
JitterFactors == JitterLow..JitterHigh

\* min(base_delay * multiplier ** current_attempt, max_delay)
BaseDelayOf(current_attempt) ==
    Min(BackoffBase * Pow(BackoffMultiplier, current_attempt), BackoffCap)

\* get_delay() at current_attempt with the jitter factor drawn.
get_delay_NoCap(current_attempt, jitter_factor) ==
    (BackoffBase * Pow(BackoffMultiplier, current_attempt) * jitter_factor)
        \div 100
get_delay(current_attempt, jitter_factor) ==
    (BaseDelayOf(current_attempt) * jitter_factor) \div 100

\* Everything but the attempt counter of the backoff and the history of the
\* call.
notBackoff ==
    <<rlVars, cpc, creq, token, attempt, max_retries, rate_limit_hits, result,
      resps, retry_pending, slept, permit, token_requests, dbVars, scVars,
      runVars, fsVars,
      signal_in_flight, db_calls, procVars>>

\* backoff.get_delay()
BackoffGetDelay ==
    /\ UNCHANGED <<notBackoff, backoff_attempt>>
    /\ \E jitter_factor \in JitterFactors :
          fn_call' = FnCall("get_delay", backoff_attempt,
                            get_delay(backoff_attempt, jitter_factor))

\* await backoff.wait(): the delay is slept, then the counter advanced.
BackoffWaitAlone ==
    /\ UNCHANGED notBackoff
    /\ backoff_attempt < MaxBackoffAttempt
    /\ \E jitter_factor \in JitterFactors :
          fn_call' = FnCall("wait", backoff_attempt,
                            get_delay(backoff_attempt, jitter_factor))
    /\ backoff_attempt' = backoff_attempt + 1

\* backoff.reset()
BackoffReset ==
    /\ UNCHANGED notBackoff
    /\ backoff_attempt' = 0
    /\ fn_call' = FnCall("reset", backoff_attempt, 0)

BackoffNext ==
    \/ BackoffGetDelay
    \/ BackoffWaitAlone
    \/ BackoffReset

SpecBackoff == Init /\ [][BackoffNext]_vars

(***************************************************************************)
(* Claims about the rate limiter.                                          *)
(***************************************************************************)

\* The grants whose timestamp lies in the trailing interval (t - horizon, t].
GrantsWithin(horizon, t) ==
    {j \in 1..Len(granted) : granted[j] > t - horizon /\ granted[j] <= t}

WindowBound(horizon, cap) ==
    \A i \in 1..Len(granted) :
        Cardinality(GrantsWithin(horizon, granted[i])) <= cap

\* C1: for each of the three windows, the number of granted timestamps inside
\* any trailing interval of the window's length never exceeds its capacity.
C1_WindowBound ==
    /\ WindowBound(Horizon1, Cap1s)
    /\ WindowBound(Horizon10, Cap10s)
    /\ WindowBound(Horizon60, Cap60s)

CriticalSection == {"check", "record", "sleep"}

\* C2: check-and-record is one critical section: at most one caller is
\* between its check and its record (or asleep between two checks) at a time,
\* and that caller holds the lock, so no two callers both observe capacity and
\* both record.
C2_MutualExclusion ==
    /\ \A c \in Callers : rlpc[c] \in CriticalSection => lock = c
    /\ \A c1, c2 \in Callers :
          (rlpc[c1] \in CriticalSection /\ rlpc[c2] \in CriticalSection)
              => c1 = c2

\* A caller sleeps on a saturated window inside the critical section while
\* another caller is waiting for the lock.
C2_Witness ==
    \E c1, c2 \in Callers :
        /\ rlpc[c1] = "sleep"
        /\ rlpc[c2] = "wantlock"
        /\ Len(window_1s) >= Cap1s

(***************************************************************************)
(* Claims about the API client.                                            *)
(***************************************************************************)

Last(log) == log[Len(log)]

\* The main request ended on an answer of the server: a status it returns
\* at once, or a 200 whose body is JSON.
EndsWithAnswer(log) ==
    /\ log # <<>>
    /\ \/ Last(log).code \in {301, 302, 400, 403, 404}
       \/ Last(log).code = 200 /\ Last(log).body.shape # "notjson"

InfoStatuses ==
    {"active", "private", "quarantined", "deleted", "notfound", "error"}

Is429(r) == r.code = 429 /\ RetryAfterParses(r.retry_after)

\* C7: a 429 consumes no retry budget: a call that was answered by 429s only
\* does not end with 'max retries exceeded' (classification error).
C7_No429Exhaustion ==
    (/\ cpc = "returned"
     /\ resps # <<>>
     /\ \A i \in 1..Len(resps) : Is429(resps[i]))
        => result.status # "error"

\* A request is dispatched in this step.
Dispatches == cpc = "send" /\ cpc' # "send"

\* The response received in this step is a 429.
Receives429 == Dispatches /\ resps' # <<>> /\ Is429(Last(resps'))

\* C8: every 429 with Retry-After: r adds exactly 1 to rate_limit_hits, the
\* next attempt of the call is dispatched no sooner than r seconds after it,
\* and rate_limit_hits never decreases.
C8_RetryAfterHonoured ==
    [][/\ rate_limit_hits' >= rate_limit_hits
       /\ Receives429 => rate_limit_hits' = rate_limit_hits + 1
       /\ (/\ Dispatches
           /\ resps # <<>>
           /\ Last(resps).code = 429
           /\ Last(resps).retry_after \in DOMAIN IntOfText)
              => slept >= IntOfText[Last(resps).retry_after]]_vars

\* The retry after a 429 with Retry-After: 2 is about to be dispatched.
C8_Witness ==
    /\ cpc = "send"
    /\ resps # <<>>
    /\ Last(resps).code = 429
    /\ Last(resps).retry_after = "2"
    /\ slept >= 2
    /\ rate_limit_hits >= 1

IsTransient(r) == r.code = 0 \/ r.code = 500
AllTransient(log) == \A i \in 1..Len(log) : IsTransient(log[i])
FrontTransient(log) == \A i \in 1..(Len(log) - 1) : IsTransient(log[i])

\* C9: 5xx responses and transport failures are retried, each after a backoff
\* wait, for at most max_retries attempts; the call is classified error only
\* once all attempts are used up, and a success that follows them gives the
\* call its classification.
C9_TransientRetried ==
    /\ Len(resps) <= MainMaxRetries
    /\ (creq = "main" /\ cpc \in {"acquire", "delay", "send"}
           /\ AllTransient(resps))
          => (attempt = Len(resps) /\ backoff_attempt = Len(resps))
    /\ (cpc = "returned" /\ resps # <<>> /\ IsTransient(Last(resps)))
          => (result = ErrorResult /\ Len(resps) = MainMaxRetries)
    /\ (cpc = "returned" /\ resps # <<>> /\ FrontTransient(resps)
           /\ Last(resps).code = 200 /\ Last(resps).body.shape = "payload")
          => (result.metadata = Last(resps).body
              /\ result.status \in {"active", "private", "quarantined"})

\* A 5xx and a transport failure, then a payload on the last attempt.
C9_Witness ==
    /\ cpc = "returned"
    /\ Len(resps) = MainMaxRetries
    /\ resps[1].code = 500
    /\ resps[2].code = 0
    /\ result.status = "active"

\* C10: a 404 gives (None, 'notfound') and a 403 gives (None, 'deleted'), and
\* the request that received it makes no further attempt.
C10_TerminalStatuses ==
    \A i \in 1..Len(resps) :
        resps[i].code \in {403, 404} =>
            /\ i = Len(resps)
            /\ cpc = "returned"
            /\ result = Pair(NoMetadata,
                             IF resps[i].code = 404 THEN "notfound"
                             ELSE "deleted")

\* A 403 on the second attempt of the main request.
C10_Witness ==
    /\ cpc = "returned"
    /\ Len(resps) = 2
    /\ Last(resps).code = 403
    /\ result.status = "deleted"

(***************************************************************************)
(* Claims about process_subreddit                                          *)
(***************************************************************************)

\* process_subreddit has returned without taking its except clause.
Processed == spc = "processed" /\ ~item_raised

\* C4: every 'deleted' classification adds one to the row's retry_count
\* (0 -> 1 -> 2 -> 3); when the third one in a row arrives the row is deleted
\* and consecutive_403s is 0 right after the deletion, while the first and
\* the second leave the row in the table with the count stored.
C4_ThirdStrikeDeletes ==
    (Processed /\ fetched.status = "deleted") =>
        /\ retry_count \in 1..RetryLimit
        /\ IF retry_count = RetryLimit
           THEN store[current] = Absent /\ consecutive_403s = 0
           ELSE /\ Exists(current)
                /\ store[current].retry = retry_count
                /\ consecutive_403s >= 1

\* Three calls on one row, each classified 'deleted': the third removed it.
C4_Witness ==
    /\ Processed
    /\ calls = RetryLimit
    /\ fetched.status = "deleted"
    /\ retry_count = RetryLimit
    /\ store[current] = Absent
    /\ consecutive_403s = 0

\* C5: a 'notfound' classification deletes the row whatever its retry_count
\* was, and consecutive_403s is 0 afterwards.
C5_NotFoundDeletes ==
    (Processed /\ fetched.status = "notfound") =>
        /\ store[current] = Absent
        /\ consecutive_403s = 0

\* Two 'deleted' classifications (retry_count 2, consecutive_403s 2), then
\* 'notfound' on the same row.
C5_Witness ==
    /\ Processed
    /\ calls = 3
    /\ fetched.status = "notfound"
    /\ retry_count = 2
    /\ store[current] = Absent
    /\ consecutive_403s = 0

(***************************************************************************)
(* Claims about the scan loops                                             *)
(***************************************************************************)

\* The consecutive 403s or the client's 429s have reached their maximum.
ThresholdReached ==
    consecutive_403s >= Max403 \/ rate_limit_hits >= Max429
LoopEnded == spc \in {"report", "save", "done"}

\* C3: in both scans, once consecutive_403s has reached max_consecutive_403
\* or the count of 429s max_total_429, no further row is started: the loop
\* that looks at its next row with a threshold reached goes to its report or
\* save step, with the shutdown flag set when rows are left; the update loop
\* does so as soon as the row in flight is done; and a loop that has ended
\* is not entered again by the same process.
C3_ThresholdsHalt ==
    [][ /\ (spc = "top" /\ spc' # "top" /\ ThresholdReached)
            => (LoopEnded' /\ (MoreRows => shutdown_requested'))
        /\ (spc = "fetch" /\ spc' # "fetch" /\ mode = "update"
               /\ ThresholdReached')
            => (spc' = "report" /\ shutdown_requested')
        /\ (spc # "fetch" /\ spc' = "fetch") => ~ThresholdReached
        /\ (LoopEnded /\ runs' = runs) => LoopEnded'
      ]_vars

\* The update scan has stopped on a 403 with a row of its list not started.
C3_Witness ==
    /\ mode = "update"
    /\ spc = "report"
    /\ consecutive_403s >= Max403
    /\ shutdown_requested
    /\ idx + 1 < Len(worklist)

(***************************************************************************)
(* Further claims about RedditAPIClient                                    *)
(***************************************************************************)

IsRedirect(r) == r.code \in {301, 302}

\* C11: a 3xx response ends the request and get_subreddit_info classifies
\* the subreddit as 'notfound', not as 'error'.
C11_RedirectNotFound ==
    (cpc = "returned" /\ resps # <<>> /\ IsRedirect(Last(resps)))
        => result = Pair(NoMetadata, "notfound")

\* The call was answered by a payload.
AnsweredByPayload ==
    /\ cpc = "returned"
    /\ resps # <<>>
    /\ Last(resps).code = 200
    /\ Last(resps).body.shape = "payload"

\* C12: a payload is classified 'quarantined' when its quarantine flag is
\* set, whatever its type; else 'private' when its type is private; else
\* 'active'; and the payload itself is the metadata returned.
C12_ClassificationOrder ==
    AnsweredByPayload =>
        LET body == Last(resps).body IN
        /\ result.metadata = body
        /\ result.status =
              IF body.quarantine THEN "quarantined"
              ELSE IF body.subreddit_type = "private" THEN "private"
              ELSE "active"

\* A quarantined private subreddit is classified 'quarantined'.
C12_Witness ==
    /\ AnsweredByPayload
    /\ Last(resps).body.quarantine
    /\ Last(resps).body.subreddit_type = "private"
    /\ result.status = "quarantined"

\* C13: a 401 is recovered from inside the call: the next request is
\* dispatched with a fresh token, and a call whose re-authentication
\* succeeded does not end on the 401 but on the answer to the retried
\* request.
C13_Unauthorized401Invisible ==
    /\ cpc = "send" => token = "valid"
    /\ (cpc = "returned" /\ resps # <<>> /\ Last(resps).code = 401)
           => token # "valid"

\* A request goes out to the network in this step: an API request, or the
\* token request of _authenticate.
SendsTokenRequest ==
    \/ cpc = "new" /\ cpc' # "new"
    \/ cpc = "ensure" /\ token # "valid" /\ cpc' # "ensure"
    \/ cpc = "reauth" /\ cpc' # "reauth"

\* C14: every request the client sends, token requests included, is
\* preceded by a granted acquire() of its own.
C14_AcquireBeforeEveryRequest ==
    [][(Dispatches \/ SendsTokenRequest) => permit]_vars

(***************************************************************************)
(* Further claims about the scan loops.                                    *)
(***************************************************************************)

\* The step starts an item: the row is handed to get_subreddit_info.
StartsItem == spc = "top" /\ spc' = "fetch"

\* The step is the rest of the item in flight: get_subreddit_info returns
\* and the writes to the table that follow it are made.
CompletesItem ==
    /\ spc = "fetch"
    /\ spc' \in {"cooldown", "report", "top"}
    /\ \/ /\ mode = "update"
          /\ \/ store' = update_subreddit(store, current, "error")
             \/ \E o \in FetchOutcomes :
                    store' = ApplyResult(store, current, o.result,
                                         consecutive_403s).db
       \/ /\ mode = "scan_csv"
          /\ \/ store' = store
             \/ \E o \in FetchOutcomes :
                    store' = CsvApplyResult(store, current, o,
                                            consecutive_403s).db

\* C15: once the shutdown flag is set during a scan, no further item is
\* started: both loops test the flag at the top of every iteration and leave
\* with the table as it is; the item in flight when the flag was set is not
\* cut short, its step is the whole rest of the item with its writes.
C15_GracefulShutdown ==
    [][/\ StartsItem => ~shutdown_requested
       /\ (spc = "top" /\ shutdown_requested)
              => (spc' \in {"report", "save"} /\ store' = store
                  /\ calls' = calls)
       /\ (spc = "fetch" /\ shutdown_requested /\ spc' # "fetch")
              => CompletesItem]_vars

\* The signal came while an item was in flight; the item has been completed
\* and written, and the loop has not yet looked at the next row.
C15_Witness ==
    /\ signal_in_flight
    /\ shutdown_requested
    /\ spc = "cooldown"
    /\ ~item_raised
    /\ fetched # NoResult
    /\ fetched.status = "active"
    /\ store[current].status = "active"

\* The list-file loop is at a row it will look at: no break applies.
CsvReachesRow ==
    /\ mode = "scan_csv"
    /\ spc = "top"
    /\ MoreRows
    /\ ~shutdown_requested
    /\ ~_check_error_thresholds(consecutive_403s, rate_limit_hits)
    /\ processed < limit

\* The key of the row the list-file loop is at.
CsvKey == Normalise(worklist[idx + 1].subreddit)

\* C16: in list-file mode a row whose trimmed, lower-cased name is already
\* in the table is dropped: get_subreddit_info is not called for it, the
\* table is not written, and the row is not among the rows kept (the SELECT
\* that looks the key up does not raise).
C16_DuplicateDropped ==
    [][(CsvReachesRow /\ store[CsvKey] # Absent /\ spc' # spc /\ ~loop_raised')
           => /\ spc' = "cooldown"
              /\ store' = store
              /\ rate_limit_hits' = rate_limit_hits
              /\ current' = current
              /\ rows_to_keep' = rows_to_keep]_vars

\* The row "A " has just been dropped as a duplicate of the row a of the
\* table.
C16_Witness ==
    /\ mode = "scan_csv"
    /\ spc = "cooldown"
    /\ current = NoKey
    /\ idx < Len(worklist)
    /\ worklist[idx + 1].subreddit = "A "
    /\ store["a"] # Absent
    /\ rows_to_keep = <<>>

Range(seq) == {seq[i] : i \in 1..Len(seq)}

KeyAt(rows, i) == Normalise(rows[i].subreddit)

\* The rows of a list at the positions of S, in the order of the list.
RECURSIVE RowsAt(_, _, _)
RowsAt(rows, S, i) ==
    IF i > Len(rows) THEN <<>>
    ELSE (IF i \in S THEN <<rows[i]>> ELSE <<>>) \o RowsAt(rows, S, i + 1)

\* The positions of the first occurrence of each key that is not in the
\* table.
FirstNew(rows, db) ==
    {i \in 1..Len(rows) :
        /\ db[KeyAt(rows, i)] = Absent
        /\ \A j \in 1..(i - 1) : KeyAt(rows, j) # KeyAt(rows, i)}

\* C18: dedupe_csv calls no method of the API client and leaves the table
\* as it is; the list it writes holds, in the order of the list read, the
\* first occurrence of each key (stripped, lower case) that is not in the
\* table: no key is twice in it and no key of the table is in it.
C18_DedupeOnly ==
    [][(spc = "idle" /\ mode' = "dedupe_csv")
          => /\ store' = store
             /\ clVars' = clVars
             /\ rlVars' = rlVars
             /\ csv_file' = RowsAt(csv_file, FirstNew(csv_file, store), 1)
             /\ \A i, j \in 1..Len(csv_file') :
                    KeyAt(csv_file', i) = KeyAt(csv_file', j) => i = j
             /\ \A i \in 1..Len(csv_file') :
                    store'[KeyAt(csv_file', i)] = Absent]_vars

\* Of the two rows "A " and "a" of one key, which the table does not hold,
\* the first was kept and the second dropped.
C18_Witness ==
    /\ mode = "dedupe_csv"
    /\ spc = "done"
    /\ Len(worklist) = 2
    /\ worklist[1].subreddit = "A "
    /\ worklist[2].subreddit = "a"
    /\ csv_file = <<worklist[1]>>
    /\ store["a"] = Absent

(***************************************************************************)
(* Claims about the Database.                                              *)
(***************************************************************************)

IsAdd(c) == c.op = "add_subreddit"

\* C19: add_subreddit is idempotent for a key: after a call the table holds
\* the row of the key, lower case; a call that finds the row, whatever its
\* status, changes nothing in the table; so of two calls one after the other
\* with names equal up to letter case the second changes nothing.
C19_AddIdempotent ==
    /\ \A i \in 1..Len(db_calls) :
          LET c == db_calls[i] IN
          IsAdd(c) =>
              /\ c.after[Lower(c.name)] # Absent
              /\ \A k \in Keys : k # Lower(c.name) => c.after[k] = c.before[k]
              /\ c.before[Lower(c.name)] # Absent => c.after = c.before
    /\ \A i \in 1..(Len(db_calls) - 1) :
          LET c1 == db_calls[i]
              c2 == db_calls[i + 1]
          IN (IsAdd(c1) /\ IsAdd(c2) /\ Lower(c1.name) = Lower(c2.name))
                 => c2.after = c1.after

\* The name was added as "a" to a table without it and then as "A": the
\* table holds the one pending row the first call made.
C19_Witness ==
    /\ Len(db_calls) = 2
    /\ IsAdd(db_calls[1]) /\ db_calls[1].name = "a"
    /\ IsAdd(db_calls[2]) /\ db_calls[2].name = "A"
    /\ db_calls[1].before["a"] = Absent
    /\ store["a"] = PendingRow
    /\ store["b"].status = "active"

IsFix(c) == c.op = "fix_inconsistent_states"

\* C20: fix_inconsistent_states clears metadata_collected on the rows that
\* are pending and collected, makes pending the rows that are completed and
\* not collected, and leaves every other row as it is; afterwards no row is
\* pending and collected.
C20_FixInconsistentStates ==
    \A i \in 1..Len(db_calls) :
        LET c == db_calls[i] IN
        IsFix(c) =>
            \A k \in Keys :
               LET old == c.before[k]
                   new == c.after[k]
               IN /\ (old.status = "pending" /\ old.collected)
                         => new = [old EXCEPT !.collected = FALSE]
                  /\ (old.status = "completed" /\ ~old.collected)
                         => new = [old EXCEPT !.status = "pending"]
                  /\ ~(\/ old.status = "pending" /\ old.collected
                       \/ old.status = "completed" /\ ~old.collected)
                         => new = old
                  /\ ~(new.status = "pending" /\ new.collected)

\* One call fixed a row of each kind.
C20_Witness ==
    /\ Len(db_calls) >= 1
    /\ IsFix(db_calls[1])
    /\ db_calls[1].before["a"].status = "pending"
    /\ db_calls[1].before["a"].collected
    /\ db_calls[1].before["b"].status = "completed"
    /\ ~db_calls[1].before["b"].collected
    /\ store["a"].status = "pending" /\ ~store["a"].collected
    /\ store["b"].status = "pending" /\ ~store["b"].collected

(***************************************************************************)
(* Claims about _interleave_with_random.                                   *)
(***************************************************************************)

IsInterleave(c) == c.fn = "_interleave_with_random"

\* The names of list l before position p.
Before(l, p) == {l[i] : i \in 1..(p - 1)}

\* The first name of ordered that is not in the set used.
EarliestLeft(ordered, used) ==
    ordered[CHOOSE i \in 1..Len(ordered) :
                /\ ordered[i] \notin used
                /\ \A j \in 1..(i - 1) : ordered[j] \in used]

\* C21: on a list of distinct names in priority order
\* _interleave_with_random ends and gives a permutation of the list: every
\* name once; the first name is the first of the list, every name at an
\* even offset (0, 2, 4, ...) is the earliest name of the list not given
\* before it, and every name at an odd offset is one not given before it.
C21_InterleavePermutation ==
    IsInterleave(fn_call) =>
        LET ordered == fn_call.arg
            out == fn_call.out
        IN /\ Len(out) = Len(ordered)
           /\ Range(out) = Range(ordered)
           /\ \A i, j \in 1..Len(out) : out[i] = out[j] => i = j
           /\ Len(ordered) >= 1 => out[1] = ordered[1]
           /\ \A p \in 1..Len(out) :
                 IF p % 2 = 1
                 THEN out[p] = EarliestLeft(ordered, Before(out, p))
                 ELSE Len(ordered) > 2 =>
                          out[p] \in Range(ordered) \ Before(out, p)

\* After the first name the last one was picked, then the second by
\* priority, then the one left.
C21_Witness ==
    /\ IsInterleave(fn_call)
    /\ fn_call.arg = <<1, 2, 3, 4>>
    /\ fn_call.out = <<1, 4, 2, 3>>

(***************************************************************************)
(* Claims about the exit code of the process.                              *)
(***************************************************************************)

ScanModes == {"update", "scan_csv"}

\* C22: an exception raised in a scan loop outside the try block of the
\* item makes the process exit with a code other than 0: the code is 0 only
\* when the scan came to its end.
C22_LoopExceptionExitCode ==
    (spc = "done" /\ mode \in ScanModes /\ loop_raised)
        => exit_code # ExitClean

\* C23: a signal that reached a running scan makes the process exit with a
\* code of its own, neither that of a scan come to its end nor that of a
\* fatal error.
C23_InterruptExitCode ==
    (spc = "done" /\ mode \in ScanModes /\ interrupted)
        => exit_code = ExitInterrupt

(***************************************************************************)
(* Claims about ExponentialBackoff.                                        *)
(***************************************************************************)

\* C24: the delay of attempt k is min(base * multiplier^k, cap) times a
\* jitter factor between 0.75 and 1.25: the delay without jitter does not
\* decrease with k and stays at the cap once there, no delay exceeds
\* 1.25 * cap, wait() leaves the counter one above what it was, get_delay()
\* leaves it as it was, and reset() leaves it at 0.
C24_BackoffDelay ==
    /\ \A k \in 0..(MaxBackoffAttempt - 1) :
          /\ BaseDelayOf(k) <= BaseDelayOf(k + 1)
          /\ BaseDelayOf(k) = BackoffCap => BaseDelayOf(k + 1) = BackoffCap
    /\ fn_call.fn \in {"get_delay", "wait"} =>
          /\ fn_call.out * 100 >= JitterLow * BaseDelayOf(fn_call.arg)
          /\ fn_call.out * 100 <= JitterHigh * BaseDelayOf(fn_call.arg)
          /\ fn_call.out * 100 <= JitterHigh * BackoffCap
    /\ fn_call.fn = "wait" => backoff_attempt = fn_call.arg + 1
    /\ fn_call.fn = "get_delay" => backoff_attempt = fn_call.arg
    /\ fn_call.fn = "reset" => backoff_attempt = 0

\* The seventh wait() slept the longest delay there is, 75 seconds: the cap
\* of 60 seconds was reached (2^6 > 60) and the jitter drawn at its maximum.
C24_Witness ==
    /\ fn_call.fn = "wait"
    /\ fn_call.arg = 6
    /\ fn_call.out = 7500
    /\ backoff_attempt = 7

(***************************************************************************)
(* Further claims about the rate limiter.                                  *)
(***************************************************************************)

\* The wait the check of this step computes, on the windows cleaned up.
WaitNow ==
    _get_wait_time(_cleanup_window(window_60s, Horizon60, now),
                   _cleanup_window(window_10s, Horizon10, now),
                   _cleanup_window(window_1s, Horizon1, now), now)

UpdateItemDone ==
    /\ mode = "update"
    /\ spc \in {"cooldown", "report"}
    /\ current # NoKey
    /\ ~item_raised

\* C26: a row classified 'deleted' for the first or the second time keeps
\* the status it had before process_subreddit was called on it, which for a
\* row picked by get_subreddits_for_update is 'active', with the incremented
\* retry_count stored: the row can be picked again by a later scan.
C26_DeletedKeepsStatus ==
    (UpdateItemDone /\ fetched.status = "deleted" /\ store[current] # Absent)
        => /\ store[current].retry = retry_count
           /\ store[current].status = "active"

\* get_subreddit_info gave a payload that is not a user profile.
SubredditPayload(r) ==
    /\ r.metadata # NoMetadata
    /\ ~IsUserProfile(r)
    /\ r.status \in {"active", "private", "quarantined"}

\* C27: when get_subreddit_info classifies the payload of a subreddit as
\* active, private or quarantined, process_subreddit leaves the row with
\* that status, metadata_collected set and retry_count 0, and
\* consecutive_403s at 0.
C27_PayloadStored ==
    (Processed /\ SubredditPayload(fetched))
        => /\ store[current] # Absent
           /\ store[current].status = fetched.status
           /\ store[current].collected
           /\ store[current].retry = 0
           /\ consecutive_403s = 0

\* The second call made on the one row of the table found it private.
C27_Witness ==
    /\ Processed
    /\ SubredditPayload(fetched)
    /\ fetched.status = "private"
    /\ calls = 2
    /\ \A k \in Keys : k # current => store[k] = Absent
    /\ store[current].retry = 0

\* C28: when get_subreddit_info returns (None, 'error'), process_subreddit
\* sets the row's status to 'error', leaves its metadata_collected and its
\* retry_count as they were and adds one to subreddits_failed.
C28_ErrorClassification ==
    [][(spc = "fetch" /\ spc' = "processed" /\ ~item_raised'
        /\ fetched' = ErrorResult)
          => /\ store'[current].status = "error"
             /\ store'[current].collected = store[current].collected
             /\ store'[current].retry = store[current].retry
             /\ subreddits_failed' = subreddits_failed + 1]_vars

\* C29: in both modes, an iteration in which get_subreddit_info was awaited
\* and which ends with the shutdown flag down goes on to the cooldown (and
\* the batch pause) before the next row is looked at.
C29_CooldownAfterFetch ==
    [][(spc = "fetch" /\ spc' # "fetch" /\ ~shutdown_requested')
          => spc' = "cooldown"]_vars

\* The columns of a row that C30 compares: presence, status,
\* metadata_collected and retry_count.
SameRow(a, b) ==
    \/ a = Absent /\ b = Absent
    \/ /\ a # Absent /\ b # Absent
       /\ a.status = b.status
       /\ a.collected = b.collected
       /\ a.retry = b.retry

\* C30: when get_subreddit_info returns in run_csv_scan for a subreddit just
\* added as pending and the iteration runs to its end, the row and
\* consecutive_403s are what process_subreddit would have made of the same
\* pending row and the same answer; a 'deleted' answer in particular counts
\* one strike and one consecutive 403 and leaves the row in the table.
C30_CsvAsRefresh ==
    [][(mode = "scan_csv" /\ spc = "fetch" /\ spc' = "cooldown"
        /\ ~item_raised')
          => LET refresh == ApplyResult(
                                update_subreddit(store, current, "processing"),
                                current, fetched', consecutive_403s)
             IN /\ SameRow(store'[current], refresh.db[current])
                /\ consecutive_403s' = refresh.c403]_vars

\* A row of the table is 'pending' with metadata_collected = 1.
PendingWithMetadata ==
    \E k \in Keys :
        store[k] # Absent /\ store[k].status = "pending" /\ store[k].collected

\* C31: in run() and in run_csv_scan(), when get_subreddit_info is awaited
\* for the first time no row of the table is 'pending' with
\* metadata_collected = 1.
C31_FixedBeforeFirstFetch ==
    spc = "fetch" => ~PendingWithMetadata

\* process_subreddit is not between its first statement and the return of
\* get_subreddit_info.
ItemBoundary == spc # "fetch"

\* C32: between two calls of process_subreddit every row with
\* metadata_collected = 1 has a status that is neither 'pending' nor
\* 'processing'.
C32_CollectedIsTerminal ==
    ItemBoundary
        => \A k \in Keys :
               (store[k] # Absent /\ store[k].collected)
                   => store[k].status \notin {"pending", "processing"}

\* C34: when process_subreddit has returned, by a return or through its
\* except clause, the row of its subreddit, if there is one, is not
\* 'processing'.
C34_NotLeftProcessing ==
    (spc = "processed" /\ store[current] # Absent)
        => store[current].status # "processing"

\* process_subreddit returns for row k, which it keeps, without having
\* raised.
ReturnsFor(k) ==
    /\ spc = "fetch" /\ spc' # "fetch" /\ ~item_raised'
    /\ k = current
    /\ store[k] # Absent /\ store'[k] # Absent

\* C33: the retry_count of a row that stays in the table grows by exactly 1
\* on a 'deleted' answer, is 0 after an active, private or quarantined
\* answer, and is changed by no other step.
C33_RetryCountSteps ==
    [][\A k \in Keys :
        /\ (ReturnsFor(k) /\ fetched'.status = "deleted")
               => store'[k].retry = store[k].retry + 1
        /\ (ReturnsFor(k) /\ SubredditPayload(fetched'))
               => store'[k].retry = 0
        /\ (/\ store[k] # Absent /\ store'[k] # Absent
            /\ store'[k].retry # store[k].retry)
               => /\ ReturnsFor(k)
                  /\ fetched'.status = "deleted" \/ SubredditPayload(fetched')
      ]_vars

\* The rows of the list gone past in this run of run_csv_scan that
\* "processed" does not count: each was requested and ended its iteration
\* with "continue".
RequestedUncounted == idx - processed

\* C35: in run_csv_scan with limit L, a request is made only while the
\* requests of the run, this one included, number at most L.
C35_AtMostLimitFetched ==
    [][(mode = "scan_csv" /\ spc = "top" /\ spc' = "fetch")
          => RequestedUncounted + 1 <= limit]_vars

\* C36: when the try block of run_csv_scan raises after the subreddit was
\* added and the except clause keeps the row of the list, the table holds no
\* row for that subreddit.
C36_KeptRowNotInStore ==
    [][(mode = "scan_csv" /\ spc = "fetch" /\ item_raised')
          => /\ rows_to_keep' = Append(rows_to_keep, worklist[idx + 1])
             /\ store'[current] = Absent]_vars

\* The number of 401 answers in a log of responses.
Count401(log) == Cardinality({i \in 1..Len(log) : log[i].code = 401})

\* The retries the _make_request call under way, or the one that has just
\* returned to get_subreddit_info's caller, was given.
RetriesGiven == IF creq = "none" THEN MainMaxRetries ELSE max_retries

\* A _make_request call is under way or has just returned.
InOrAfterCall == creq # "none" \/ cpc = "returned"

\* C37 as stated: the HTTP requests of one _make_request call, the token
\* requests of _authenticate among them, number at most max_retries.
C37_AtMostMaxRetriesRequests ==
    InOrAfterCall => Len(resps) + token_requests <= RetriesGiven

\* C37, amended: one _make_request call sends at most max_retries API
\* requests, and besides them at most one token request before the loop and
\* one for each 401 answer; and the call ends whatever the answers are.
C37_BoundedAndTerminates ==
    /\ [](InOrAfterCall
            => /\ Len(resps) <= RetriesGiven
               /\ token_requests <= 1 + Count401(resps))
    /\ (creq = "diversity") ~> (creq # "diversity")
    /\ (creq = "main") ~> (creq = "none")

\* A main call was answered by 401 three times and re-authenticated each
\* time after a token refresh before the loop: three API requests and four
\* token requests.
C37_Witness ==
    /\ cpc = "returned"
    /\ Len(resps) = MainMaxRetries
    /\ Count401(resps) = MainMaxRetries
    /\ token_requests = 1 + MainMaxRetries

\* C38: while run() is the mode of the process, consecutive_403s stays
\* between 0 and max_consecutive_403, no step adds more than 1 to it, and
\* once it is at the maximum the loop is left with the shutdown flag set.
C38_Consecutive403Bounded ==
    [][mode' = "update"
          => /\ consecutive_403s' \in 0..Max403
             /\ consecutive_403s' <= consecutive_403s + 1
             /\ consecutive_403s' = Max403
                    => shutdown_requested' /\ spc' \in {"report", "done"}
      ]_vars

\* A refresh run has met its last allowed consecutive 403 and is leaving the
\* loop.
C38_Witness ==
    /\ mode = "update"
    /\ consecutive_403s = Max403
    /\ fetched.status = "deleted"
    /\ spc = "report"
    /\ shutdown_requested

\* C39: no row of the table has a retry_count of 3 or more, whatever calls
\* of process_subreddit were made on a table that had none.
C39_RetryCountBelowLimit ==
    \A k \in Keys : store[k] # Absent => store[k].retry < RetryLimit

\* The third 'deleted' answer for one row removed it while another row keeps
\* the strike it was given.
C39_Witness ==
    /\ Processed
    /\ fetched.status = "deleted"
    /\ retry_count = RetryLimit
    /\ store[current] = Absent
    /\ \E k \in Keys \ {current} : store[k] # Absent /\ store[k].retry = 1

\* acquire() appends its timestamp to the three windows in this step.
Grants == \E c \in Callers : rlpc[c] = "record" /\ rlpc'[c] # "record"

\* C40: right after a grant each of the three deques holds at most its
\* capacity of timestamps.
C40_DequesWithinCapacity ==
    [][Grants
          => /\ Len(window_1s') <= Cap1s
             /\ Len(window_10s') <= Cap10s
             /\ Len(window_60s') <= Cap60s]_vars

====
